---- MODULE Spec2Model ----
(***************************************************************************)
(* A model of the audio client of liebeskind/hifi                          *)
(* (libraries/audio-client/src/AudioClient.cpp): format negotiation, the    *)
(* capture path (ring buffer, drain loop, packetizer, sequence number),     *)
(* and the render path (readData, starvation detection, buffer growth).     *)
(*                                                                          *)
(* Conventions.  A QAudioFormat is the record [sampleRate, channelCount];   *)
(* sample size, codec, sample type and byte order are the same in every     *)
(* format the client builds and are left out.  A pointer is NULL or a       *)
(* record describing the object.  Floating-point quantities are kept as     *)
(* exact fractions: a loudness is [num, den], the clip timer is counted in  *)
(* units of 1/SAMPLE_RATE seconds.                                          *)
(***************************************************************************)
EXTENDS Integers, Sequences, FiniteSets, TLC

(***************************************************************************)
(* Bounds of the model.                                                    *)
(***************************************************************************)
\* samples per channel of one network frame in the model (the program's
\* AudioConstants::NETWORK_FRAME_SAMPLES_PER_CHANNEL, scaled down)
FrameScale == 2
\* packets handed to the transport in one behaviour
MaxPackets == 3
\* frames the clip timer is followed for after a clip
MaxClipFrames == 1
\* milliseconds of wall clock the render path is followed for
MaxTime == 2
\* readData calls that find the device empty between two notify ticks
MaxUnfulfilled == 2
\* the persisted starve-detection period, in milliseconds
StarvePeriod == 1
\* the persisted starve-detection threshold
StarveThreshold == 1
\* formats a device supports at most when negotiation is taken on its own
MaxDeviceFormats == 2
\* pairs of samples a buffer holds at most when conversion is taken on its own
MaxConversionPairs == 2
\* the largest reverb time and wet level a zone or a script asks for
MaxReverbLevel == 2
\* samples per channel of the longest network frame the sample counts of a
\* quantum are computed for
MaxQuantumSamples == 8

(***************************************************************************)
(* Program constants.                                                      *)
(***************************************************************************)
SAMPLE_RATE == 24000
FORTY_FOUR == 44100
CALLBACK_ACCELERATOR_RATIO == 2
SEQ_MODULUS == 65536
MAX_SAMPLE_VALUE == 32767
MIN_AUDIO_OUTPUT_BUFFER_SIZE_FRAMES == 1
MAX_AUDIO_OUTPUT_BUFFER_SIZE_FRAMES == 20
\* sizeof(int16_t)
BYTES_PER_SAMPLE == 2
\* AudioNoiseGate::CLIPPING_THRESHOLD, in percent of MAX_SAMPLE_VALUE
CLIPPING_THRESHOLD_PERCENT == 90

HALF_FORTY_FOUR == FORTY_FOUR \div 2
NETWORK_FRAME_SAMPLES_PER_CHANNEL == FrameScale
NETWORK_FRAME_SAMPLES_STEREO == NETWORK_FRAME_SAMPLES_PER_CHANNEL * 2
NETWORK_FRAME_BYTES_PER_CHANNEL == NETWORK_FRAME_SAMPLES_PER_CHANNEL * BYTES_PER_SAMPLE
NETWORK_FRAME_BYTES_STEREO == NETWORK_FRAME_SAMPLES_STEREO * BYTES_PER_SAMPLE

\* a null pointer
NULL == [null |-> TRUE]

\* the QIODevice a started QAudioInput or QAudioOutput hands back
QIODevice == [object |-> "QIODevice"]

(***************************************************************************)
(* Arithmetic helpers.                                                     *)
(***************************************************************************)
\* C integer division: truncation toward zero (b > 0)
TruncDiv(a, b) == IF a >= 0 THEN a \div b ELSE -((-a) \div b)

Abs(x) == IF x < 0 THEN -x ELSE x

Min(a, b) == IF a < b THEN a ELSE b

Max(a, b) == IF a > b THEN a ELSE b

\* (int)(num/den + 0.5f) for a non-negative fraction num/den
RoundHalfUp(num, den) == (2 * num + den) \div (2 * den)

RECURSIVE SumAbs(_)
SumAbs(s) == IF s = <<>> THEN 0 ELSE Abs(Head(s)) + SumAbs(Tail(s))

(***************************************************************************)
(* Formats and devices.                                                    *)
(***************************************************************************)
Format(rate, channels) == [sampleRate |-> rate, channelCount |-> channels]

\* a default-constructed QAudioFormat
NullFormat == Format(-1, -1)

SetChannelCount(f, c) == [f EXCEPT !.channelCount = c]

SetSampleRate(f, r) == [f EXCEPT !.sampleRate = r]

\* a QAudioDeviceInfo: its name and the formats it supports;
\* a default-constructed one is null
Device(name, formats) == [name |-> name, supported |-> formats]

NullDevice == Device("", {})

isNull(dev) == dev = NullDevice

isFormatSupported(dev, f) == f \in dev.supported

supportedSampleRates(dev) == {f.sampleRate : f \in dev.supported}

\* QAudioDeviceInfo::nearestFormat: the formats it may return for a request
nearestFormat(dev, f) ==
    IF isFormatSupported(dev, f) THEN {f}
    ELSE IF dev.supported = {} THEN {NullFormat}
    ELSE dev.supported

\* faulty variant of FallbackRequest: 44100 Hz is tried before 22050 Hz
FallbackRequest_prefersFortyFour(dev, desired) ==
    IF (SAMPLE_RATE * 2) \in supportedSampleRates(dev)
    THEN SetSampleRate(desired, SAMPLE_RATE * 2)
    ELSE IF FORTY_FOUR \in supportedSampleRates(dev)
    THEN SetSampleRate(desired, FORTY_FOUR)
    ELSE IF HALF_FORTY_FOUR \in supportedSampleRates(dev)
    THEN SetSampleRate(desired, HALF_FORTY_FOUR)
    ELSE desired

\* the format adjustedFormatForAudioDevice hands to nearestFormat when the
\* desired format is not supported (lines 318-337, non-Android build)
FallbackRequest(dev, desired) ==
    IF (SAMPLE_RATE * 2) \in supportedSampleRates(dev)
    THEN SetSampleRate(desired, SAMPLE_RATE * 2)
    ELSE IF HALF_FORTY_FOUR \in supportedSampleRates(dev)
    THEN SetSampleRate(desired, HALF_FORTY_FOUR)
    ELSE IF FORTY_FOUR \in supportedSampleRates(dev)
    THEN SetSampleRate(desired, FORTY_FOUR)
    ELSE desired

\* faulty variant of adjustedFormatForAudioDevice: the supported branch hands
\* back the device's fallback request instead of the desired format
adjustedFormatForAudioDevice_keepsFallback(dev, desired, near) ==
    IF ~isFormatSupported(dev, desired)
    THEN IF desired.channelCount = 1
            /\ isFormatSupported(dev, SetChannelCount(desired, 2))
         THEN [ok |-> TRUE, format |-> SetChannelCount(desired, 2)]
         ELSE IF FallbackRequest(dev, desired) # desired
              THEN [ok |-> TRUE, format |-> near]
              ELSE [ok |-> FALSE, format |-> desired]
    ELSE [ok |-> TRUE, format |-> FallbackRequest(dev, desired)]

\* faulty variant of adjustedFormatForAudioDevice: the two-channel retry is
\* left out, a mono request goes straight to the sample-rate fallback
adjustedFormatForAudioDevice_noStereoRetry(dev, desired, near) ==
    IF ~isFormatSupported(dev, desired)
    THEN IF FallbackRequest(dev, desired) # desired
         THEN [ok |-> TRUE, format |-> near]
         ELSE [ok |-> FALSE, format |-> desired]
    ELSE [ok |-> TRUE, format |-> desired]

\* faulty variant of adjustedFormatForAudioDevice: failure is decided by
\* comparing the device's nearest format, not the fallback request, with
\* the desired format
adjustedFormatForAudioDevice_comparesNearest(dev, desired, near) ==
    IF ~isFormatSupported(dev, desired)
    THEN IF desired.channelCount = 1
            /\ isFormatSupported(dev, SetChannelCount(desired, 2))
         THEN [ok |-> TRUE, format |-> SetChannelCount(desired, 2)]
         ELSE IF near # desired
              THEN [ok |-> TRUE, format |-> near]
              ELSE [ok |-> FALSE, format |-> desired]
    ELSE [ok |-> TRUE, format |-> desired]

\* adjustedFormatForAudioDevice: the returned bool and the format left in
\* adjustedAudioFormat; near is what nearestFormat returns for the request
adjustedFormatForAudioDevice(dev, desired, near) ==
    IF ~isFormatSupported(dev, desired)
    THEN IF desired.channelCount = 1
            /\ isFormatSupported(dev, SetChannelCount(desired, 2))
         THEN [ok |-> TRUE, format |-> SetChannelCount(desired, 2)]
         ELSE IF FallbackRequest(dev, desired) # desired
              THEN [ok |-> TRUE, format |-> near]
              ELSE [ok |-> FALSE, format |-> desired]
    ELSE [ok |-> TRUE, format |-> desired]

\* the values nearestFormat may return inside adjustedFormatForAudioDevice
NearestChoices(dev, desired) == nearestFormat(dev, FallbackRequest(dev, desired))

(***************************************************************************)
(* Sample conversion.                                                      *)
(***************************************************************************)
\* numDestinationSamplesRequired: (int)(n * (dc/sc) * (dr/sr) + 0.5f)
numDestinationSamplesRequired(src, dst, n) ==
    RoundHalfUp(n * dst.channelCount * dst.sampleRate,
                src.channelCount * src.sampleRate)

\* faulty variant of the stereo-to-mono loop: the pair is summed first and
\* the sum halved
StereoToMono_sumFirst(s) ==
    [i \in 1..(Len(s) \div 2) |-> TruncDiv(s[2 * i - 1] + s[2 * i], 2)]

\* the stereo-to-mono loop of sampleChannelConversion for an even count
StereoToMono(s) ==
    [i \in 1..(Len(s) \div 2) |-> TruncDiv(s[2 * i - 1], 2) + TruncDiv(s[2 * i], 2)]

\* the mono-to-stereo loop of sampleChannelConversion
MonoToStereo(s) == [i \in 1..(2 * Len(s)) |-> s[(i + 1) \div 2]]

\* sampleChannelConversion: whether it converted, and what it wrote
sampleChannelConversion(s, src, dst) ==
    IF src.channelCount = 2 /\ dst.channelCount = 1
    THEN [converted |-> TRUE, kind |-> "stereoToMono", out |-> StereoToMono(s)]
    ELSE IF src.channelCount = 1 /\ dst.channelCount = 2
    THEN [converted |-> TRUE, kind |-> "monoToStereo", out |-> MonoToStereo(s)]
    ELSE [converted |-> FALSE, kind |-> "none", out |-> <<>>]

\* soxr_process (external engine): n output samples for the input s,
\* here by nearest-neighbour selection
soxr_process(s, n) ==
    IF Len(s) = 0 THEN [i \in 1..n |-> 0]
    ELSE [i \in 1..n |-> s[((i - 1) * Len(s)) \div n + 1]]

\* possibleResampling: what it wrote to destinationSamples, and which
\* conversion it used
possibleResampling(resampler, s, numDestinationSamples, src, dst) ==
    IF Len(s) > 0
    THEN IF resampler = NULL
         THEN LET c == sampleChannelConversion(s, src, dst)
              IN IF c.converted
                 THEN [out |-> c.out, kind |-> c.kind, resampled |-> FALSE]
                 ELSE [out |-> s, kind |-> "copy", resampled |-> FALSE]
         ELSE IF src.channelCount # dst.channelCount
              THEN LET c == sampleChannelConversion(s, src, dst)
                   IN [out |-> soxr_process(c.out, numDestinationSamples),
                       kind |-> c.kind, resampled |-> TRUE]
              ELSE [out |-> soxr_process(s, numDestinationSamples),
                    kind |-> "none", resampled |-> TRUE]
    ELSE [out |-> <<>>, kind |-> "none", resampled |-> FALSE]

\* faulty variant of soxrResamplerFromInputFormatToOutputFormat: an error of
\* soxr_create goes unnoticed and a context is returned all the same
soxrResamplerFromInputFormatToOutputFormat_neverFails(src, dst, soxrOk) ==
    [from |-> src.sampleRate, to |-> dst.sampleRate]

\* soxrResamplerFromInputFormatToOutputFormat: the context, or NULL when
\* soxr_create reports an error
soxrResamplerFromInputFormatToOutputFormat(src, dst, soxrOk) ==
    IF soxrOk THEN [from |-> src.sampleRate, to |-> dst.sampleRate] ELSE NULL

(***************************************************************************)
(* State.                                                                  *)
(***************************************************************************)
VARIABLES
    \* capture direction
    audioInput,                 \* NULL or the QAudioInput [device, format]
    inputDevice,                \* NULL or the QIODevice returned by start()
    inputAudioDeviceName,
    desiredInputFormat,
    inputFormat,
    numInputCallbackBytes,
    inputRingBuffer,            \* the samples written and not yet read
    inputToNetworkResampler,
    isStereoInput,
    muted,
    shouldEchoToServer,
    shouldEchoLocally,
    isNoiseGateEnabled,
    audioSourceInjectEnabled,
    lastInputLoudness,          \* [num, den]: the float num/den
    timeSinceLastClip,          \* in units of 1/SAMPLE_RATE seconds
    outgoingAvatarAudioSequenceNumber,
    \* the node list
    audioMixer,                 \* "none", "inactive" (no active socket), "active"
    \* what the last handleAudioInput call did
    datagrams,                  \* the packets it handed to writeDatagram, in order
    frames,                     \* the quanta it drained, in order
    \* what the last switchInputToAudioDevice / switchOutputToAudioDevice did
    inputSwitch,
    outputSwitch,
    \* history
    packetsSinceKill,           \* packets written since the last audioMixerKilled, -1: none yet
    totalPackets,
    \* render direction
    audioOutput,                \* NULL or the QAudioOutput [device, format, bufferFrames]
    outputAudioDeviceName,
    desiredOutputFormat,
    outputFormat,
    outputFrameSize,
    networkToOutputResampler,
    loopbackResampler,
    loopbackAudioOutput,
    loopbackOutputDevice,
    loopbackWritten,            \* the samples last written to the loopback sink
    outputBufferSizeFrames,     \* the persisted setting
    outputStarveDetectionEnabled,
    outputStarveDetectionPeriodMsec,
    outputStarveDetectionThreshold,
    outputStarveDetectionStartTimeMsec,
    outputStarveDetectionCount,
    unfulfilledReads,
    now,                        \* usecTimestampNow() / 1000
    receivedAudioStream,        \* the samples the jitter buffer can pop
    lastRead,                   \* what the last readData call did
    lastNotify,                 \* what the last outputNotify call did
    lastRender,                 \* what the last processReceivedSamples call did
    \* reverb
    reverb,                     \* reverb requested by the client
    streamReverb,               \* [has, reverbTime, wetLevel] of the received stream
    reverbOptions,              \* "script" or "zone": which options object is pointed to
    scriptReverbOptions,
    zoneReverbOptions,
    gverbLocal,                 \* the engine of the loopback path
    gverb,                      \* the engine of the network-received path
    \* physics
    entitySimulation,           \* PhysicsEntity::_simulation of each entity
    ragdollSimulation,          \* Ragdoll::_simulation of each ragdoll
    mainEntity,                 \* _entity of each simulation
    mainRagdoll,                \* _ragdoll of each simulation
    otherEntities,              \* _otherEntities of each simulation
    otherRagdolls,              \* _otherRagdolls of each simulation
    build                       \* "unknown", or what a failed assert has shown

captureVars == <<audioInput, inputDevice, inputAudioDeviceName, desiredInputFormat,
                 inputFormat, numInputCallbackBytes, inputRingBuffer,
                 inputToNetworkResampler, isStereoInput, inputSwitch>>

flagVars == <<muted, shouldEchoToServer, shouldEchoLocally, isNoiseGateEnabled,
              audioSourceInjectEnabled>>

packetVars == <<lastInputLoudness, timeSinceLastClip, outgoingAvatarAudioSequenceNumber,
                datagrams, frames, packetsSinceKill, totalPackets>>

outputDeviceVars == <<audioOutput, outputAudioDeviceName, desiredOutputFormat, outputFormat,
                      outputFrameSize, networkToOutputResampler, loopbackAudioOutput,
                      outputSwitch, receivedAudioStream>>

loopbackVars == <<loopbackResampler, loopbackOutputDevice, loopbackWritten>>

starveVars == <<outputBufferSizeFrames, outputStarveDetectionStartTimeMsec,
                outputStarveDetectionCount, unfulfilledReads, lastNotify>>

settingVars == <<outputStarveDetectionEnabled, outputStarveDetectionPeriodMsec,
                 outputStarveDetectionThreshold>>

streamVars == <<lastRead, lastRender>>

reverbVars == <<reverb, streamReverb, reverbOptions, scriptReverbOptions, zoneReverbOptions,
                gverbLocal, gverb>>

physicsVars == <<entitySimulation, ragdollSimulation, mainEntity, mainRagdoll,
                 otherEntities, otherRagdolls, build>>

audioVars == <<captureVars, flagVars, packetVars, audioMixer, outputDeviceVars, loopbackVars,
               starveVars, settingVars, streamVars, now, reverbVars>>

vars == <<audioVars, physicsVars>>

(***************************************************************************)
(* The environment of the model: devices, sample values, buffers.          *)
(***************************************************************************)
\* the capture devices the system lists
InputDevices ==
    { Device("mic-native", {Format(SAMPLE_RATE, 1), Format(SAMPLE_RATE, 2)}),
      Device("mic-stereo", {Format(SAMPLE_RATE, 2)}),
      Device("mic-48k", {Format(SAMPLE_RATE * 2, 2)}),
      Device("mic-8k", {Format(SAMPLE_RATE \div 3, 1)}) }

\* the render devices the system lists
OutputDevices ==
    { Device("out-native", {Format(SAMPLE_RATE, 2)}),
      Device("out-48k", {Format(SAMPLE_RATE * 2, 2)}),
      Device("out-8k", {Format(SAMPLE_RATE \div 3, 1)}) }

\* defaultAudioDeviceForMode
defaultInputDevice == Device("mic-native", {Format(SAMPLE_RATE, 1), Format(SAMPLE_RATE, 2)})

defaultOutputDevice == Device("out-native", {Format(SAMPLE_RATE, 2)})

\* getNamedAudioDeviceForMode: the listed device of that name, else a null one
getNamedAudioDeviceForMode(devices, name) ==
    IF \E d \in devices : d.name = name
    THEN CHOOSE d \in devices : d.name = name
    ELSE NullDevice

\* the sample values a capture buffer holds: silence, a quiet negative
\* sample, a clipping sample
SampleValues == {0, -3, MAX_SAMPLE_VALUE}

\* the buffers readAll() returns: a run of one sample value, or a run of
\* silence followed by a run of another value
CaptureBuffers ==
    { [i \in 1..(k * FrameScale) |-> v] : k \in {1, 2}, v \in SampleValues }
        \cup { [i \in 1..(2 * FrameScale) |-> IF i <= FrameScale THEN 0 ELSE v] :
                  v \in SampleValues }

Take(s, n) == SubSeq(s, 1, n)

Drop(s, n) == SubSeq(s, n + 1, Len(s))

Zeros(n) == [i \in 1..n |-> 0]

(***************************************************************************)
(* Capture: device switch.                                                 *)
(***************************************************************************)
\* calculateNumberOfInputCallbackBytes
calculateNumberOfInputCallbackBytes(format) ==
    RoundHalfUp(NETWORK_FRAME_BYTES_PER_CHANNEL * format.channelCount * format.sampleRate,
                SAMPLE_RATE * CALLBACK_ACCELERATOR_RATIO)

\* calculateDeviceToNetworkInputRatio
calculateDeviceToNetworkInputRatio ==
    RoundHalfUp(numInputCallbackBytes * CALLBACK_ACCELERATOR_RATIO,
                NETWORK_FRAME_BYTES_PER_CHANNEL)

\* handleAudioInput, line 703
inputSamplesRequired == NETWORK_FRAME_SAMPLES_PER_CHANNEL * calculateDeviceToNetworkInputRatio

\* faulty variant of InputNeedsResampler: any difference of format asks for
\* a resampler
InputNeedsResampler_anyDifference(fmt, desired) == fmt # desired

\* whether switchInputToAudioDevice asks for a resampler (lines 1035-1036)
InputNeedsResampler(fmt, desired) ==
    fmt # desired /\ fmt.sampleRate # desired.sampleRate

\* switchInputToAudioDevice(const QAudioDeviceInfo&) with the desired format
\* given: near is nearestFormat's answer, soxrOk whether soxr_create
\* succeeds, startOk whether QAudioInput::start() returns a device
SwitchInputWith(dev, desired, stereo, near, soxrOk, startOk) ==
    LET hadInput == audioInput # NULL
        adj == adjustedFormatForAudioDevice(dev, desired, near)
        needs == InputNeedsResampler(adj.format, desired)
        resampler == IF ~isNull(dev) /\ adj.ok /\ needs
                     THEN soxrResamplerFromInputFormatToOutputFormat(adj.format, desired, soxrOk)
                     ELSE NULL
        opens == /\ ~isNull(dev)
                 /\ adj.ok
                 /\ (needs => resampler # NULL)
                 /\ (~stereo \/ adj.format.channelCount = 2)
        started == opens /\ startOk
    IN  /\ desiredInputFormat' = desired
        /\ isStereoInput' = stereo
        /\ inputFormat' = IF isNull(dev) THEN inputFormat ELSE adj.format
        /\ inputToNetworkResampler' = resampler
        /\ audioInput' = IF opens THEN [device |-> dev.name, format |-> adj.format] ELSE NULL
        /\ inputDevice' = IF started THEN QIODevice ELSE NULL
        /\ numInputCallbackBytes' =
              IF opens THEN calculateNumberOfInputCallbackBytes(adj.format)
              ELSE IF hadInput THEN 0 ELSE numInputCallbackBytes
        /\ inputRingBuffer' = IF opens THEN <<>> ELSE inputRingBuffer
        /\ inputAudioDeviceName' =
              IF ~isNull(dev) THEN dev.name
              ELSE IF hadInput THEN "" ELSE inputAudioDeviceName
        /\ inputSwitch' = [device |-> dev, desired |-> desired, called |-> TRUE,
                           negotiated |-> ~isNull(dev), ok |-> adj.ok,
                           format |-> adj.format, supportedFormat |-> started]

\* faulty variant of SwitchInputToAudioDevice: the input switch also deletes
\* the network-to-output resampler
SwitchInputToAudioDevice_deletesOutputResampler(dev) ==
    /\ \E near \in NearestChoices(dev, desiredInputFormat), soxrOk \in BOOLEAN, startOk \in BOOLEAN :
          SwitchInputWith(dev, desiredInputFormat, isStereoInput, near, soxrOk, startOk)
    /\ networkToOutputResampler' = NULL
    /\ UNCHANGED <<flagVars, packetVars, audioMixer, audioOutput, outputAudioDeviceName,
                   desiredOutputFormat, outputFormat, outputFrameSize, loopbackAudioOutput,
                   outputSwitch, receivedAudioStream, loopbackVars,
                   starveVars, settingVars, physicsVars, streamVars, now, reverbVars>>

\* switchInputToAudioDevice(dev), requested by the user
SwitchInputToAudioDevice(dev) ==
    /\ \E near \in NearestChoices(dev, desiredInputFormat), soxrOk \in BOOLEAN, startOk \in BOOLEAN :
          SwitchInputWith(dev, desiredInputFormat, isStereoInput, near, soxrOk, startOk)
    /\ UNCHANGED <<flagVars, packetVars, audioMixer, outputDeviceVars, loopbackVars,
                   starveVars, settingVars, physicsVars, streamVars, now, reverbVars>>

\* setIsStereoInput
SetIsStereoInput(stereo) ==
    /\ stereo # isStereoInput
    /\ LET desired == SetChannelCount(desiredInputFormat, IF stereo THEN 2 ELSE 1)
           dev == getNamedAudioDeviceForMode(InputDevices, inputAudioDeviceName)
       IN \E near \in NearestChoices(dev, desired), soxrOk \in BOOLEAN, startOk \in BOOLEAN :
             SwitchInputWith(dev, desired, stereo, near, soxrOk, startOk)
    /\ UNCHANGED <<flagVars, packetVars, audioMixer, outputDeviceVars, loopbackVars,
                   starveVars, settingVars, physicsVars, streamVars, now, reverbVars>>

(***************************************************************************)
(* Reverb options and engines.                                             *)
(***************************************************************************)
\* a default-constructed AudioEffectOptions
DefaultEffectOptions == [reverbTime |-> 1, wetLevel |-> 1, rest |-> 0]

\* the options object _reverbOptions points to
ActiveReverbOptions(which, script, zone) == IF which = "zone" THEN zone ELSE script

\* gverb_new plus the gverb_set_* calls of initGverb, for one engine; fed
\* tells whether gverb_do has run audio through this instance since
NewGverb(options) ==
    [sampleRate |-> outputFormat.sampleRate, options |-> options, fed |-> FALSE]

\* the gverb_do loop of addReverb over n samples
FedGverb(engine, n) == [engine EXCEPT !.fed = @ \/ n > 0]

\* faulty variant of updateGverbOptions: the engines are rebuilt when the
\* zone's values change, not when the provenance of the options changes
updateGverbOptions_keepsEngines ==
    LET zone1 == IF streamReverb.has
                 THEN [zoneReverbOptions EXCEPT !.reverbTime = streamReverb.reverbTime,
                                                !.wetLevel = streamReverb.wetLevel]
                 ELSE zoneReverbOptions
        which1 == IF streamReverb.has THEN "zone" ELSE "script"
        reverbChanged == zone1 # zoneReverbOptions
        active == ActiveReverbOptions(which1, scriptReverbOptions, zone1)
    IN  [reverbOptions |-> which1,
         zoneReverbOptions |-> zone1,
         rebuilt |-> reverbChanged,
         gverbLocal |-> IF reverbChanged THEN NewGverb(active) ELSE gverbLocal,
         gverb |-> IF reverbChanged THEN NewGverb(active) ELSE gverb]

\* updateGverbOptions: the reverb state it leaves
updateGverbOptions ==
    LET zone1 == IF streamReverb.has
                 THEN [zoneReverbOptions EXCEPT !.reverbTime = streamReverb.reverbTime,
                                                !.wetLevel = streamReverb.wetLevel]
                 ELSE zoneReverbOptions
        which1 == IF streamReverb.has THEN "zone" ELSE "script"
        reverbChanged == zone1 # zoneReverbOptions \/ which1 # reverbOptions
        active == ActiveReverbOptions(which1, scriptReverbOptions, zone1)
    IN  [reverbOptions |-> which1,
         zoneReverbOptions |-> zone1,
         rebuilt |-> reverbChanged,
         gverbLocal |-> IF reverbChanged THEN NewGverb(active) ELSE gverbLocal,
         gverb |-> IF reverbChanged THEN NewGverb(active) ELSE gverb]

(***************************************************************************)
(* Capture: handleAudioInput.                                              *)
(***************************************************************************)
\* the tone or noise generator and the post gain rendered onto the captured
\* samples when source injection is enabled (external DSP kernels)
renderSource(buf) ==
    [i \in 1..Len(buf) |-> TruncDiv(Min(buf[i] + MAX_SAMPLE_VALUE \div 2, MAX_SAMPLE_VALUE), 4)]

\* handleLocalEchoAndReverb: the loopback and reverb state it leaves;
\* soxrOk is whether a soxr_create it may call succeeds
handleLocalEchoAndReverb(buf, soxrOk) ==
    LET hasLocalReverb == (reverb \/ streamReverb.has) /\ ~shouldEchoToServer
        same == [loopbackOutputDevice |-> loopbackOutputDevice,
                 loopbackResampler |-> loopbackResampler,
                 loopbackWritten |-> loopbackWritten,
                 wrote |-> FALSE,
                 reverbOptions |-> reverbOptions,
                 zoneReverbOptions |-> zoneReverbOptions,
                 gverbLocal |-> gverbLocal,
                 gverb |-> gverb]
        device == IF loopbackOutputDevice = NULL /\ loopbackAudioOutput # NULL
                  THEN QIODevice ELSE loopbackOutputDevice
        creates == inputFormat.sampleRate # outputFormat.sampleRate /\ loopbackResampler = NULL
        resampler == IF creates
                     THEN soxrResamplerFromInputFormatToOutputFormat(inputFormat, outputFormat, soxrOk)
                     ELSE loopbackResampler
        n == numDestinationSamplesRequired(inputFormat, outputFormat, Len(buf))
        conv == possibleResampling(resampler, buf, n, inputFormat, outputFormat)
        samples == [i \in 1..n |-> IF i <= Len(conv.out) THEN conv.out[i] ELSE 0]
        upd == updateGverbOptions
        active == ActiveReverbOptions(upd.reverbOptions, scriptReverbOptions, upd.zoneReverbOptions)
        written == [input |-> buf,
                    samples |-> samples,
                    resampler |-> resampler,
                    reverb |-> IF hasLocalReverb
                               THEN [engine |-> upd.gverbLocal, wetLevel |-> active.wetLevel,
                                     noEcho |-> ~shouldEchoLocally]
                               ELSE NULL]
    IN  IF muted \/ audioOutput = NULL \/ (~shouldEchoLocally /\ ~hasLocalReverb)
        THEN same
        ELSE IF creates /\ resampler = NULL
        THEN [same EXCEPT !.loopbackOutputDevice = device]
        ELSE [loopbackOutputDevice |-> device,
              loopbackResampler |-> resampler,
              loopbackWritten |-> IF device # NULL THEN written ELSE loopbackWritten,
              wrote |-> device # NULL,
              reverbOptions |-> IF hasLocalReverb THEN upd.reverbOptions ELSE reverbOptions,
              zoneReverbOptions |-> IF hasLocalReverb THEN upd.zoneReverbOptions ELSE zoneReverbOptions,
              gverbLocal |-> IF hasLocalReverb THEN FedGverb(upd.gverbLocal, n) ELSE gverbLocal,
              gverb |-> IF hasLocalReverb THEN upd.gverb ELSE gverb]

\* the loudness the loop of lines 778-789 computes: mean absolute sample
MeanAbs(frame) == [num |-> SumAbs(frame), den |-> Len(frame)]

ZeroLoudness == [num |-> 0, den |-> 1]

\* thisSample > MAX_SAMPLE_VALUE * CLIPPING_THRESHOLD for some sample
Clips(frame) ==
    \E i \in 1..Len(frame) : 100 * Abs(frame[i]) > MAX_SAMPLE_VALUE * CLIPPING_THRESHOLD_PERCENT

\* AudioNoiseGate::gateSamples on one network frame: an open gate passes the
\* frame, a closed gate silences it; the clip flag is that of the raw frame
gateSamples(frame, open) ==
    [samples |-> IF open THEN frame ELSE Zeros(Len(frame)),
     lastLoudness |-> IF open THEN MeanAbs(frame) ELSE ZeroLoudness,
     clippedInLastFrame |-> Clips(frame)]

\* faulty variant of PacketTypeFor: every frame goes out as a voice packet
PacketTypeFor_alwaysVoice(loudness, echoToServer) ==
    IF echoToServer THEN "MicrophoneAudioWithEcho" ELSE "MicrophoneAudioNoEcho"

\* the packet type chosen at lines 811-820
PacketTypeFor(loudness, echoToServer) ==
    IF loudness.num = 0 THEN "SilentAudioFrame"
    ELSE IF echoToServer THEN "MicrophoneAudioWithEcho"
    ELSE "MicrophoneAudioNoEcho"

\* sizeof(quint16), sizeof(quint8), sizeof(glm::vec3) and sizeof(glm::quat):
\* a 16-bit integer, one byte, three floats and four floats
SIZEOF_QUINT16 == 2
SIZEOF_QUINT8 == 1
SIZEOF_VEC3 == 12
SIZEOF_QUAT == 16

\* what precedes the samples in the packet buffer, the header apart
\* (line 697): networkAudioSamples points this far behind the header
leadingBytes == SIZEOF_QUINT16 + SIZEOF_VEC3 + SIZEOF_QUAT + SIZEOF_QUINT8

\* faulty variant of PacketFields: the silent frame keeps the stereo byte and
\* the samples of a voice packet
PacketFields_silentCarriesAudio(type, seq, samples) ==
    LET numNetworkBytes == IF isStereoInput THEN NETWORK_FRAME_BYTES_STEREO
                           ELSE NETWORK_FRAME_BYTES_PER_CHANNEL
    IN  << [field |-> "sequence", bytes |-> SIZEOF_QUINT16, value |-> seq],
           [field |-> "isStereo", bytes |-> SIZEOF_QUINT8,
            value |-> IF isStereoInput THEN 1 ELSE 0],
           [field |-> "position", bytes |-> SIZEOF_VEC3, value |-> "headPosition"],
           [field |-> "orientation", bytes |-> SIZEOF_QUAT, value |-> "headOrientation"],
           [field |-> "samples", bytes |-> numNetworkBytes, value |-> samples] >>

\* what lines 822-855 put behind the header that populatePacketHeader writes
\* for the packet type, in order, with the bytes each field takes
PacketFields(type, seq, samples) ==
    LET numNetworkBytes == IF isStereoInput THEN NETWORK_FRAME_BYTES_STEREO
                           ELSE NETWORK_FRAME_BYTES_PER_CHANNEL
        numNetworkSamples == IF isStereoInput THEN NETWORK_FRAME_SAMPLES_STEREO
                             ELSE NETWORK_FRAME_SAMPLES_PER_CHANNEL
    IN  IF type = "SilentAudioFrame"
        THEN << [field |-> "sequence", bytes |-> SIZEOF_QUINT16, value |-> seq],
                [field |-> "numSilentSamples", bytes |-> SIZEOF_QUINT16,
                 value |-> numNetworkSamples % SEQ_MODULUS],
                [field |-> "position", bytes |-> SIZEOF_VEC3, value |-> "headPosition"],
                [field |-> "orientation", bytes |-> SIZEOF_QUAT,
                 value |-> "headOrientation"] >>
        ELSE << [field |-> "sequence", bytes |-> SIZEOF_QUINT16, value |-> seq],
                [field |-> "isStereo", bytes |-> SIZEOF_QUINT8,
                 value |-> IF isStereoInput THEN 1 ELSE 0],
                [field |-> "position", bytes |-> SIZEOF_VEC3, value |-> "headPosition"],
                [field |-> "orientation", bytes |-> SIZEOF_QUAT,
                 value |-> "headOrientation"],
                [field |-> "samples", bytes |-> numNetworkBytes, value |-> samples] >>

\* faulty variant of NextSequenceNumber: the counter is wider than 16 bits
NextSequenceNumber_wide(n) == n + 1

\* _outgoingAvatarAudioSequenceNumber++ on a quint16
NextSequenceNumber(n) == (n + 1) % SEQ_MODULUS

\* faulty variant of MutedQuantum: a muted quantum keeps the loudness of
\* the last unmuted frame
MutedQuantum_keepsLoudness(st) ==
    [st EXCEPT !.ring = Drop(st.ring, inputSamplesRequired),
               !.timer = 0,
               !.frame = [source |-> <<>>, converted |-> <<>>, network |-> <<>>, kind |-> "none",
                          resampled |-> FALSE, muted |-> TRUE, loudness |-> st.loudness,
                          timer |-> 0, sent |-> FALSE]]

\* the muted branch of the drain loop (lines 795-801)
MutedQuantum(st) ==
    [st EXCEPT !.ring = Drop(st.ring, inputSamplesRequired),
               !.loudness = ZeroLoudness,
               !.timer = 0,
               !.frame = [source |-> <<>>, converted |-> <<>>, network |-> <<>>, kind |-> "none",
                          resampled |-> FALSE, muted |-> TRUE, loudness |-> ZeroLoudness,
                          timer |-> 0, sent |-> FALSE]]

\* the unmuted branch of the drain loop (lines 747-793)
UnmutedQuantum(st, gateOpen) ==
    LET numNetworkSamples == IF isStereoInput THEN NETWORK_FRAME_SAMPLES_STEREO
                             ELSE NETWORK_FRAME_SAMPLES_PER_CHANNEL
        timer1 == IF st.timer >= 0 THEN st.timer + numNetworkSamples ELSE st.timer
        source == Take(st.ring, inputSamplesRequired)
        conv == possibleResampling(inputToNetworkResampler, source, numNetworkSamples,
                                   inputFormat, desiredInputFormat)
        network == [i \in 1..numNetworkSamples |->
                       IF i <= Len(conv.out) THEN conv.out[i] ELSE 0]
        gated == ~isStereoInput /\ ~audioSourceInjectEnabled /\ isNoiseGateEnabled
        gate == gateSamples(network, gateOpen)
        loudness == IF gated THEN gate.lastLoudness ELSE MeanAbs(network)
        clipped == IF gated THEN gate.clippedInLastFrame ELSE Clips(network)
        timer2 == IF clipped THEN 0 ELSE timer1
    IN  [st EXCEPT !.ring = Drop(st.ring, inputSamplesRequired),
                   !.loudness = loudness,
                   !.timer = timer2,
                   !.frame = [source |-> source,
                              converted |-> network,
                              network |-> IF gated THEN gate.samples ELSE network,
                              kind |-> conv.kind, resampled |-> conv.resampled,
                              muted |-> FALSE, loudness |-> loudness,
                              timer |-> timer2, sent |-> FALSE]]

\* faulty variant of SendQuantum: the sequence number advances for every
\* quantum, also when no packet is written
SendQuantum_alwaysCounts(st) ==
    IF audioMixer = "active"
    THEN LET type == PacketTypeFor(st.loudness, shouldEchoToServer)
             packet == [type |-> type,
                        sequence |-> st.seq,
                        frame |-> Len(st.frames) + 1,
                        sinceKill |-> st.since,
                        fields |-> PacketFields(type, st.seq, st.frame.network)]
         IN [st EXCEPT !.packets = Append(st.packets, packet),
                       !.frames = Append(st.frames, [st.frame EXCEPT !.sent = TRUE]),
                       !.seq = NextSequenceNumber(st.seq),
                       !.since = IF st.since >= 0 THEN st.since + 1 ELSE st.since,
                       !.total = st.total + 1]
    ELSE [st EXCEPT !.frames = Append(st.frames, st.frame),
                    !.seq = NextSequenceNumber(st.seq)]

\* faulty variant of SendQuantum: a packet is written whenever an audio
\* mixer is known, with or without an active socket
SendQuantum_ignoresSocket(st) ==
    IF audioMixer # "none"
    THEN LET type == PacketTypeFor(st.loudness, shouldEchoToServer)
             packet == [type |-> type,
                        sequence |-> st.seq,
                        frame |-> Len(st.frames) + 1,
                        sinceKill |-> st.since,
                        fields |-> PacketFields(type, st.seq, st.frame.network)]
         IN [st EXCEPT !.packets = Append(st.packets, packet),
                       !.frames = Append(st.frames, [st.frame EXCEPT !.sent = TRUE]),
                       !.seq = NextSequenceNumber(st.seq),
                       !.since = IF st.since >= 0 THEN st.since + 1 ELSE st.since,
                       !.total = st.total + 1]
    ELSE [st EXCEPT !.frames = Append(st.frames, st.frame)]

\* the packet of one quantum (lines 803-863): built and handed to
\* writeDatagram, whose outcome is not looked at, only when the audio mixer
\* is known with an active socket
SendQuantum(st) ==
    IF audioMixer = "active"
    THEN LET type == PacketTypeFor(st.loudness, shouldEchoToServer)
             packet == [type |-> type,
                        sequence |-> st.seq,
                        frame |-> Len(st.frames) + 1,
                        sinceKill |-> st.since,
                        fields |-> PacketFields(type, st.seq, st.frame.network)]
         IN [st EXCEPT !.packets = Append(st.packets, packet),
                       !.frames = Append(st.frames, [st.frame EXCEPT !.sent = TRUE]),
                       !.seq = NextSequenceNumber(st.seq),
                       !.since = IF st.since >= 0 THEN st.since + 1 ELSE st.since,
                       !.total = st.total + 1]
    ELSE [st EXCEPT !.frames = Append(st.frames, st.frame)]

\* the drain loop of handleAudioInput (lines 738-864)
RECURSIVE DrainLoop(_, _)
DrainLoop(st, gateOpen) ==
    IF inputSamplesRequired <= 0
    THEN [st EXCEPT !.diverges = TRUE]
    ELSE IF Len(st.ring) < inputSamplesRequired
    THEN st
    ELSE DrainLoop(SendQuantum(IF muted THEN MutedQuantum(st)
                               ELSE UnmutedQuantum(st, gateOpen)),
                   gateOpen)

\* the drain of handleAudioInput over what the ring holds once captured is
\* written to it, with the sequence number at seq
handleAudioInput(captured, gateOpen, seq) ==
    DrainLoop([ring |-> inputRingBuffer \o captured,
               loudness |-> lastInputLoudness,
               timer |-> timeSinceLastClip,
               seq |-> seq,
               since |-> packetsSinceKill,
               total |-> totalPackets,
               packets |-> <<>>,
               frames |-> <<>>,
               frame |-> NULL,
               diverges |-> FALSE],
              gateOpen)

\* handleAudioInput, the slot connected to the capture device's readyRead:
\* buf is what readAll() returns, gateOpen the noise gate's decision for
\* the frames of this call, soxrOk the outcome of a soxr_create for the
\* loopback
HandleAudioInput(buf, gateOpen, soxrOk) ==
    /\ inputDevice # NULL
    /\ LET captured == IF ~muted /\ audioSourceInjectEnabled THEN renderSource(buf) ELSE buf
           echo == handleLocalEchoAndReverb(captured, soxrOk)
           st == handleAudioInput(captured, gateOpen, outgoingAvatarAudioSequenceNumber)
       IN  /\ ~st.diverges
           /\ st.total <= MaxPackets
           /\ st.timer <= MaxClipFrames * NETWORK_FRAME_SAMPLES_STEREO
           /\ inputRingBuffer' = st.ring
           /\ lastInputLoudness' = st.loudness
           /\ timeSinceLastClip' = st.timer
           /\ outgoingAvatarAudioSequenceNumber' = st.seq
           /\ packetsSinceKill' = st.since
           /\ totalPackets' = st.total
           /\ datagrams' = st.packets
           /\ frames' = st.frames
           /\ loopbackOutputDevice' = echo.loopbackOutputDevice
           /\ loopbackResampler' = echo.loopbackResampler
           /\ loopbackWritten' = echo.loopbackWritten
           /\ reverbOptions' = echo.reverbOptions
           /\ zoneReverbOptions' = echo.zoneReverbOptions
           /\ gverbLocal' = echo.gverbLocal
           /\ gverb' = echo.gverb
    /\ UNCHANGED <<audioInput, inputDevice, inputAudioDeviceName, desiredInputFormat,
                   inputFormat, numInputCallbackBytes, inputToNetworkResampler,
                   isStereoInput, inputSwitch, flagVars, audioMixer, outputDeviceVars,
                   starveVars, settingVars, physicsVars, streamVars, now, reverb, streamReverb,
                   scriptReverbOptions>>

\* faulty variant of AudioMixerKilled: the sequence number is left alone
AudioMixerKilled_keepsSequence ==
    /\ outgoingAvatarAudioSequenceNumber' = outgoingAvatarAudioSequenceNumber
    /\ packetsSinceKill' = 0
    /\ UNCHANGED <<captureVars, flagVars, lastInputLoudness, timeSinceLastClip, datagrams,
                   frames, totalPackets, audioMixer, outputDeviceVars, loopbackVars,
                   starveVars, settingVars, physicsVars, streamVars, now, reverbVars>>

\* audioMixerKilled (lines 156-159)
AudioMixerKilled ==
    /\ outgoingAvatarAudioSequenceNumber' = 0
    /\ packetsSinceKill' = 0
    /\ UNCHANGED <<captureVars, flagVars, lastInputLoudness, timeSinceLastClip, datagrams,
                   frames, totalPackets, audioMixer, outputDeviceVars, loopbackVars,
                   starveVars, settingVars, physicsVars, streamVars, now, reverbVars>>

\* toggleMute
ToggleMute ==
    /\ muted' = ~muted
    /\ UNCHANGED <<captureVars, shouldEchoToServer, shouldEchoLocally, isNoiseGateEnabled,
                   audioSourceInjectEnabled, packetVars, audioMixer, outputDeviceVars,
                   loopbackVars, starveVars, settingVars, physicsVars, streamVars, now, reverbVars>>

\* the user's echo-to-server switch
ToggleServerEcho ==
    /\ shouldEchoToServer' = ~shouldEchoToServer
    /\ UNCHANGED <<captureVars, muted, shouldEchoLocally, isNoiseGateEnabled,
                   audioSourceInjectEnabled, packetVars, audioMixer, outputDeviceVars,
                   loopbackVars, starveVars, settingVars, physicsVars, streamVars, now, reverbVars>>

\* the user's local-echo switch
ToggleLocalEcho ==
    /\ shouldEchoLocally' = ~shouldEchoLocally
    /\ UNCHANGED <<captureVars, muted, shouldEchoToServer, isNoiseGateEnabled,
                   audioSourceInjectEnabled, packetVars, audioMixer, outputDeviceVars,
                   loopbackVars, starveVars, settingVars, physicsVars, streamVars, now, reverbVars>>

\* the node list gains, loses or (de)activates its audio mixer
MixerChanges(m) ==
    /\ m # audioMixer
    /\ audioMixer' = m
    /\ UNCHANGED <<captureVars, flagVars, packetVars, outputDeviceVars, loopbackVars,
                   starveVars, settingVars, physicsVars, streamVars, now, reverbVars>>

(***************************************************************************)
(* Render: device switch, buffer size, starvation detection.               *)
(***************************************************************************)
\* outputFormatChanged: the new _outputFrameSize
OutputFrameSizeFor(format, desired) ==
    (NETWORK_FRAME_SAMPLES_PER_CHANNEL * (format.channelCount * format.sampleRate))
        \div desired.sampleRate

\* faulty variant of switchOutputToAudioDevice: the device is opened although
\* the negotiation failed
switchOutputToAudioDevice_opensUnnegotiated(dev, desired, frames_, near, soxrOk) ==
    LET hadOutput == audioOutput # NULL
        adj == adjustedFormatForAudioDevice(dev, desired, near)
        needs == desired # adj.format
                 /\ desired.sampleRate # adj.format.sampleRate
        resampler == IF ~isNull(dev) /\ adj.ok /\ needs
                     THEN soxrResamplerFromInputFormatToOutputFormat(desired,
                                                                     adj.format, soxrOk)
                     ELSE NULL
        opens == ~isNull(dev) /\ (needs => resampler # NULL)
        frameSize == IF opens THEN OutputFrameSizeFor(adj.format, desired)
                     ELSE outputFrameSize
    IN  [audioOutput |-> IF opens
                         THEN [device |-> dev.name, format |-> adj.format,
                               bufferSize |-> frames_ * frameSize * BYTES_PER_SAMPLE]
                         ELSE NULL,
         loopbackAudioOutput |-> IF opens THEN [device |-> dev.name, format |-> adj.format]
                                 ELSE IF hadOutput THEN NULL ELSE loopbackAudioOutput,
         loopbackOutputDevice |-> IF hadOutput THEN NULL ELSE loopbackOutputDevice,
         networkToOutputResampler |-> resampler,
         loopbackResampler |-> NULL,
         outputAudioDeviceName |-> IF isNull(dev) THEN outputAudioDeviceName ELSE dev.name,
         outputFormat |-> IF isNull(dev) THEN outputFormat ELSE adj.format,
         outputFrameSize |-> frameSize,
         receivedAudioStream |-> IF opens THEN <<>> ELSE receivedAudioStream,
         outputSwitch |-> [device |-> dev, desired |-> desired, called |-> TRUE,
                           negotiated |-> ~isNull(dev), ok |-> adj.ok,
                           format |-> adj.format, supportedFormat |-> opens]]

\* faulty variant of switchOutputToAudioDevice: the loopback resampler is
\* left as it was
switchOutputToAudioDevice_keepsLoopbackResampler(dev, desired, frames_, near, soxrOk) ==
    LET hadOutput == audioOutput # NULL
        adj == adjustedFormatForAudioDevice(dev, desired, near)
        needs == desired # adj.format
                 /\ desired.sampleRate # adj.format.sampleRate
        resampler == IF ~isNull(dev) /\ adj.ok /\ needs
                     THEN soxrResamplerFromInputFormatToOutputFormat(desired,
                                                                     adj.format, soxrOk)
                     ELSE NULL
        opens == ~isNull(dev) /\ adj.ok /\ (needs => resampler # NULL)
        frameSize == IF opens THEN OutputFrameSizeFor(adj.format, desired)
                     ELSE outputFrameSize
    IN  [audioOutput |-> IF opens
                         THEN [device |-> dev.name, format |-> adj.format,
                               bufferSize |-> frames_ * frameSize * BYTES_PER_SAMPLE]
                         ELSE NULL,
         loopbackAudioOutput |-> IF opens THEN [device |-> dev.name, format |-> adj.format]
                                 ELSE IF hadOutput THEN NULL ELSE loopbackAudioOutput,
         loopbackOutputDevice |-> IF hadOutput THEN NULL ELSE loopbackOutputDevice,
         networkToOutputResampler |-> resampler,
         loopbackResampler |-> loopbackResampler,
         outputAudioDeviceName |-> IF isNull(dev) THEN outputAudioDeviceName ELSE dev.name,
         outputFormat |-> IF isNull(dev) THEN outputFormat ELSE adj.format,
         outputFrameSize |-> frameSize,
         receivedAudioStream |-> IF opens THEN <<>> ELSE receivedAudioStream,
         outputSwitch |-> [device |-> dev, desired |-> desired, called |-> TRUE,
                           negotiated |-> ~isNull(dev), ok |-> adj.ok,
                           format |-> adj.format, supportedFormat |-> opens]]

\* switchOutputToAudioDevice(const QAudioDeviceInfo&): the render state it
\* leaves when the desired format is desired and the persisted buffer size
\* is frames_; near is nearestFormat's
\* answer, soxrOk whether soxr_create succeeds
switchOutputToAudioDevice(dev, desired, frames_, near, soxrOk) ==
    LET hadOutput == audioOutput # NULL
        adj == adjustedFormatForAudioDevice(dev, desired, near)
        needs == desired # adj.format
                 /\ desired.sampleRate # adj.format.sampleRate
        resampler == IF ~isNull(dev) /\ adj.ok /\ needs
                     THEN soxrResamplerFromInputFormatToOutputFormat(desired,
                                                                     adj.format, soxrOk)
                     ELSE NULL
        opens == ~isNull(dev) /\ adj.ok /\ (needs => resampler # NULL)
        frameSize == IF opens THEN OutputFrameSizeFor(adj.format, desired)
                     ELSE outputFrameSize
    IN  [audioOutput |-> IF opens
                         THEN [device |-> dev.name, format |-> adj.format,
                               bufferSize |-> frames_ * frameSize * BYTES_PER_SAMPLE]
                         ELSE NULL,
         loopbackAudioOutput |-> IF opens THEN [device |-> dev.name, format |-> adj.format]
                                 ELSE IF hadOutput THEN NULL ELSE loopbackAudioOutput,
         loopbackOutputDevice |-> IF hadOutput THEN NULL ELSE loopbackOutputDevice,
         networkToOutputResampler |-> resampler,
         loopbackResampler |-> NULL,
         outputAudioDeviceName |-> IF isNull(dev) THEN outputAudioDeviceName ELSE dev.name,
         outputFormat |-> IF isNull(dev) THEN outputFormat ELSE adj.format,
         outputFrameSize |-> frameSize,
         receivedAudioStream |-> IF opens THEN <<>> ELSE receivedAudioStream,
         outputSwitch |-> [device |-> dev, desired |-> desired, called |-> TRUE,
                           negotiated |-> ~isNull(dev), ok |-> adj.ok,
                           format |-> adj.format, supportedFormat |-> opens]]

\* the render state as it is
RenderState ==
    [audioOutput |-> audioOutput,
     loopbackAudioOutput |-> loopbackAudioOutput,
     loopbackOutputDevice |-> loopbackOutputDevice,
     networkToOutputResampler |-> networkToOutputResampler,
     loopbackResampler |-> loopbackResampler,
     outputAudioDeviceName |-> outputAudioDeviceName,
     outputFormat |-> outputFormat,
     outputFrameSize |-> outputFrameSize,
     receivedAudioStream |-> receivedAudioStream,
     outputSwitch |-> outputSwitch]

SetRenderState(r) ==
    /\ audioOutput' = r.audioOutput
    /\ loopbackAudioOutput' = r.loopbackAudioOutput
    /\ loopbackOutputDevice' = r.loopbackOutputDevice
    /\ networkToOutputResampler' = r.networkToOutputResampler
    /\ loopbackResampler' = r.loopbackResampler
    /\ outputAudioDeviceName' = r.outputAudioDeviceName
    /\ outputFormat' = r.outputFormat
    /\ outputFrameSize' = r.outputFrameSize
    /\ receivedAudioStream' = r.receivedAudioStream
    /\ outputSwitch' = r.outputSwitch

\* switchOutputToAudioDevice(dev), requested by the user
SwitchOutputToAudioDevice(dev) ==
    /\ \E near \in NearestChoices(dev, desiredOutputFormat), soxrOk \in BOOLEAN :
          SetRenderState(switchOutputToAudioDevice(dev, desiredOutputFormat,
                                                   outputBufferSizeFrames, near, soxrOk))
    /\ UNCHANGED <<captureVars, flagVars, packetVars, audioMixer, desiredOutputFormat,
                   loopbackWritten, starveVars, settingVars, physicsVars, streamVars, now, reverbVars>>

\* stop(): both directions are switched to the null device, and the
\* loopback resampler is deleted
Stop ==
    /\ \E near \in NearestChoices(NullDevice, desiredInputFormat) :
          SwitchInputWith(NullDevice, desiredInputFormat, isStereoInput, near, TRUE, TRUE)
    /\ \E near \in NearestChoices(NullDevice, desiredOutputFormat) :
          SetRenderState([switchOutputToAudioDevice(NullDevice, desiredOutputFormat,
                                                    outputBufferSizeFrames, near, TRUE)
                             EXCEPT !.loopbackResampler = NULL])
    /\ UNCHANGED <<flagVars, packetVars, audioMixer, desiredOutputFormat, loopbackWritten,
                   starveVars, settingVars, physicsVars, streamVars, now, reverbVars>>

\* the clamp of setOutputBufferSize (line 1171)
ClampFrames(numFrames) ==
    Min(Max(numFrames, MIN_AUDIO_OUTPUT_BUFFER_SIZE_FRAMES), MAX_AUDIO_OUTPUT_BUFFER_SIZE_FRAMES)

\* setOutputBufferSize: the persisted size and the render state it leaves
setOutputBufferSize(numFrames, near, soxrOk) ==
    LET clamped == ClampFrames(numFrames)
    IN  IF clamped # outputBufferSizeFrames
        THEN [frames |-> clamped,
              render |-> IF audioOutput # NULL
                         THEN switchOutputToAudioDevice(defaultOutputDevice, desiredOutputFormat,
                                                        clamped, near, soxrOk)
                         ELSE RenderState,
              switched |-> audioOutput # NULL]
        ELSE [frames |-> outputBufferSizeFrames, render |-> RenderState, switched |-> FALSE]

\* setOutputBufferSize(numFrames), requested by the user
SetOutputBufferSize(numFrames) ==
    /\ \E near \in NearestChoices(defaultOutputDevice, desiredOutputFormat), soxrOk \in BOOLEAN :
          LET r == setOutputBufferSize(numFrames, near, soxrOk)
          IN  /\ outputBufferSizeFrames' = r.frames
              /\ SetRenderState(r.render)
    /\ UNCHANGED <<captureVars, flagVars, packetVars, audioMixer, desiredOutputFormat,
                   loopbackWritten, outputStarveDetectionStartTimeMsec,
                   outputStarveDetectionCount, unfulfilledReads, lastNotify,
                   settingVars, physicsVars, streamVars, now, reverbVars>>

\* outputNotify, the slot connected to the render device's notify signal
OutputNotify ==
    /\ audioOutput # NULL
    /\ \E near \in NearestChoices(defaultOutputDevice, desiredOutputFormat), soxrOk \in BOOLEAN :
          LET recentUnfulfilled == unfulfilledReads
              detects == recentUnfulfilled > 0 /\ outputStarveDetectionEnabled
              dt == now - outputStarveDetectionStartTimeMsec
              restarts == detects /\ dt > outputStarveDetectionPeriodMsec
              count == outputStarveDetectionCount + recentUnfulfilled
              crosses == detects /\ ~restarts /\ count > outputStarveDetectionThreshold
              r == IF crosses
                   THEN setOutputBufferSize(outputBufferSizeFrames + 1, near, soxrOk)
                   ELSE [frames |-> outputBufferSizeFrames, render |-> RenderState,
                         switched |-> FALSE]
          IN  /\ unfulfilledReads' = 0
              /\ outputStarveDetectionStartTimeMsec' =
                    IF restarts \/ crosses THEN now ELSE outputStarveDetectionStartTimeMsec
              /\ outputStarveDetectionCount' =
                    IF restarts \/ crosses THEN 0
                    ELSE IF detects THEN count
                    ELSE outputStarveDetectionCount
              /\ outputBufferSizeFrames' = r.frames
              /\ SetRenderState(r.render)
              /\ lastNotify' = [called |-> TRUE, recentUnfulfilled |-> recentUnfulfilled,
                                restarted |-> restarts, crossed |-> crosses,
                                before |-> outputBufferSizeFrames, after |-> r.frames,
                                switched |-> r.switched, device |-> audioOutput.device]
    /\ UNCHANGED <<captureVars, flagVars, packetVars, audioMixer, desiredOutputFormat,
                   loopbackWritten, settingVars, physicsVars, streamVars, now, reverbVars>>

\* the wall clock advances by a millisecond
Tick ==
    /\ now < MaxTime
    /\ now' = now + 1
    /\ UNCHANGED <<captureVars, flagVars, packetVars, audioMixer, outputDeviceVars,
                   loopbackVars, starveVars, settingVars, physicsVars, streamVars, reverbVars>>

(***************************************************************************)
(* Render: the received stream and readData.                               *)
(***************************************************************************)
\* samples the jitter buffer is followed up to
MaxStreamSamples == 2 * NETWORK_FRAME_SAMPLES_STEREO

\* the mixed frames the audio mixer sends: one stereo network frame
NetworkFrames ==
    { [i \in 1..NETWORK_FRAME_SAMPLES_STEREO |-> IF i % 2 = 1 THEN a ELSE b] :
        a \in {5}, b \in {0, -7} }

\* processReceivedSamples: the device-format samples it leaves in the output
\* buffer, and the reverb state
processReceivedSamples(inputBuffer) ==
    LET numNetworkOutputSamples == Len(inputBuffer)
        numDeviceOutputSamples ==
            (numNetworkOutputSamples * (outputFormat.sampleRate * outputFormat.channelCount))
                \div (desiredOutputFormat.sampleRate * desiredOutputFormat.channelCount)
        conv == possibleResampling(networkToOutputResampler, inputBuffer,
                                   numDeviceOutputSamples, desiredOutputFormat, outputFormat)
        hasReverb == reverb \/ streamReverb.has
        upd == updateGverbOptions
        active == ActiveReverbOptions(upd.reverbOptions, scriptReverbOptions, upd.zoneReverbOptions)
    IN  [samples |-> [i \in 1..numDeviceOutputSamples |->
                         IF i <= Len(conv.out) THEN conv.out[i] ELSE 0],
         numDeviceOutputSamples |-> numDeviceOutputSamples,
         kind |-> conv.kind,
         resampled |-> conv.resampled,
         reverb |-> IF hasReverb
                    THEN [engine |-> upd.gverb, wetLevel |-> active.wetLevel]
                    ELSE NULL,
         reverbOptions |-> IF hasReverb THEN upd.reverbOptions ELSE reverbOptions,
         zoneReverbOptions |-> IF hasReverb THEN upd.zoneReverbOptions ELSE zoneReverbOptions,
         gverbLocal |-> IF hasReverb THEN upd.gverbLocal ELSE gverbLocal,
         gverb |-> IF hasReverb THEN FedGverb(upd.gverb, numDeviceOutputSamples) ELSE gverb]

\* addReceivedAudioToStream: a mixed frame arrives from the audio mixer and
\* the stream hands it to processReceivedSamples
AddReceivedAudioToStream(frame) ==
    /\ audioOutput # NULL
    /\ LET r == processReceivedSamples(frame)
       IN  /\ Len(receivedAudioStream) + Len(r.samples) <= MaxStreamSamples
           /\ receivedAudioStream' = receivedAudioStream \o r.samples
           /\ lastRender' = [called |-> TRUE, input |-> frame, samples |-> r.samples,
                             kind |-> r.kind, resampled |-> r.resampled, reverb |-> r.reverb]
           /\ reverbOptions' = r.reverbOptions
           /\ zoneReverbOptions' = r.zoneReverbOptions
           /\ gverbLocal' = r.gverbLocal
           /\ gverb' = r.gverb
    /\ UNCHANGED <<captureVars, flagVars, packetVars, audioMixer, audioOutput,
                   outputAudioDeviceName, desiredOutputFormat, outputFormat, outputFrameSize,
                   networkToOutputResampler, loopbackAudioOutput, outputSwitch, loopbackVars,
                   starveVars, settingVars, physicsVars, lastRead, now, reverb, streamReverb,
                   scriptReverbOptions>>

\* InboundAudioStream::popSamples(maxSamples, allOrNothing = false): the
\* numbers of samples it may pop, nothing while the stream is refilling,
\* otherwise what it holds up to what is asked for
popSamples(stream, maxSamples) == {0, Min(maxSamples, Len(stream))}

\* the bytes of the buffer readData is given: not written, zeroed, or one
\* of the two bytes of a sample
Untouched == [byte |-> "untouched"]

ZeroByte == [byte |-> "zero"]

SampleByte(sample, half) == [byte |-> "sample", value |-> sample, half |-> half]

\* faulty variant of readData: the whole request is reported as written
\* also when fewer samples were popped
readData_reportsRequest(stream, maxSize, samplesPopped) ==
    IF samplesPopped > 0
        THEN [samplesPopped |-> samplesPopped,
              data |-> [i \in 1..maxSize |->
                          IF i <= samplesPopped * BYTES_PER_SAMPLE
                          THEN SampleByte(stream[(i + 1) \div BYTES_PER_SAMPLE],
                                          (i + 1) % BYTES_PER_SAMPLE)
                          ELSE Untouched],
              bytesWritten |-> maxSize]
        ELSE [samplesPopped |-> 0,
              data |-> [i \in 1..maxSize |-> ZeroByte],
              bytesWritten |-> maxSize]

\* AudioOutputIODevice::readData, lines 1239-1250: what it pops, what it
\* leaves in data, what it returns
readData(stream, maxSize, samplesPopped) ==
    IF samplesPopped > 0
        THEN [samplesPopped |-> samplesPopped,
              data |-> [i \in 1..maxSize |->
                          IF i <= samplesPopped * BYTES_PER_SAMPLE
                          THEN SampleByte(stream[(i + 1) \div BYTES_PER_SAMPLE],
                                          (i + 1) % BYTES_PER_SAMPLE)
                          ELSE Untouched],
              bytesWritten |-> samplesPopped * BYTES_PER_SAMPLE]
        ELSE [samplesPopped |-> 0,
              data |-> [i \in 1..maxSize |-> ZeroByte],
              bytesWritten |-> maxSize]

\* the request sizes the render device makes
ReadSizes == 0..(NETWORK_FRAME_BYTES_STEREO + 1)

\* readData, called by the render device: bytesAudioOutputUnplayed is what
\* the device still holds (bufferSize() - bytesFree())
ReadData(maxSize, bytesAudioOutputUnplayed) ==
    /\ audioOutput # NULL
    /\ \E samplesPopped \in popSamples(receivedAudioStream, maxSize \div BYTES_PER_SAMPLE) :
       LET r == readData(receivedAudioStream, maxSize, samplesPopped)
           unfulfilled == bytesAudioOutputUnplayed = 0 /\ r.bytesWritten = 0
       IN  /\ unfulfilled => unfulfilledReads < MaxUnfulfilled
           /\ receivedAudioStream' = Drop(receivedAudioStream, r.samplesPopped)
           /\ unfulfilledReads' = IF unfulfilled THEN unfulfilledReads + 1 ELSE unfulfilledReads
           /\ lastRead' = [called |-> TRUE, maxSize |-> maxSize,
                           available |-> receivedAudioStream,
                           samplesPopped |-> r.samplesPopped, data |-> r.data,
                           bytesWritten |-> r.bytesWritten, unfulfilled |-> unfulfilled]
    /\ UNCHANGED <<captureVars, flagVars, packetVars, audioMixer, audioOutput,
                   outputAudioDeviceName, desiredOutputFormat, outputFormat, outputFrameSize,
                   networkToOutputResampler, loopbackAudioOutput, outputSwitch, loopbackVars,
                   outputBufferSizeFrames, outputStarveDetectionStartTimeMsec,
                   outputStarveDetectionCount, lastNotify, settingVars, physicsVars, lastRender, now,
                   reverbVars>>

(***************************************************************************)
(* PhysicsSimulation: entities, ragdolls and their back-pointers.          *)
(***************************************************************************)
NumSimulations == 2
NumEntities == 3
NumRagdolls == 2

\* the list limits of lines 23-24, 64 entities and 16 dolls in the program
MAX_ENTITIES_PER_SIMULATION == 2
MAX_DOLLS_PER_SIMULATION == 1

Simulations == { [simulation |-> i] : i \in 1..NumSimulations }

Entities == { [entity |-> i] : i \in 1..NumEntities }

Ragdolls == { [ragdoll |-> i] : i \in 1..NumRagdolls }

\* the elements of a list
Listed(list) == { list[i] : i \in DOMAIN list }

\* how often x is in the list
Occurrences(list, x) == Cardinality({ i \in DOMAIN list : list[i] = x })

\* the removal of lines 114-129 and 189-205: the first occurrence of x goes,
\* the last element takes its place unless x was the last
RemoveFirst(list, x) ==
    IF x \notin Listed(list) THEN list
    ELSE LET n == Len(list)
             i == CHOOSE k \in 1..n : list[k] = x /\ \A j \in 1..(k - 1) : list[j] # x
         IN  IF i = n THEN SubSeq(list, 1, n - 1)
             ELSE [SubSeq(list, 1, n - 1) EXCEPT ![i] = list[n]]

\* an assert whose condition is false aborts the program unless the build
\* defines NDEBUG, and then the call goes on; which build this is shows at
\* the first assert that fails
Builds(asserted) ==
    IF asserted /\ build = "unknown" THEN {"NDEBUG", "aborted"} ELSE {build}

\* PhysicsSimulation() for every simulation, with entities and ragdolls
\* that belong to none
PhysicsConstructed ==
    /\ entitySimulation = [e \in Entities |-> NULL]
    /\ ragdollSimulation = [r \in Ragdolls |-> NULL]
    /\ mainEntity = [s \in Simulations |-> NULL]
    /\ mainRagdoll = [s \in Simulations |-> NULL]
    /\ otherEntities = [s \in Simulations |-> <<>>]
    /\ otherRagdolls = [s \in Simulations |-> <<>>]
    /\ build = "unknown"

\* clear() (lines 36-53)
clear(sim) ==
    /\ build # "aborted"
    /\ entitySimulation' =
          [e \in Entities |->
              IF e \in Listed(otherEntities[sim]) \/ e = mainEntity[sim]
              THEN NULL ELSE entitySimulation[e]]
    /\ otherEntities' = [otherEntities EXCEPT ![sim] = <<>>]
    /\ mainRagdoll' = [mainRagdoll EXCEPT ![sim] = NULL]
    /\ otherRagdolls' = [otherRagdolls EXCEPT ![sim] = <<>>]
    /\ UNCHANGED <<audioVars, ragdollSimulation, mainEntity, build>>

\* setRagdoll(ragdoll) (lines 55-66); ragdoll may be NULL
setRagdoll(sim, ragdoll) ==
    /\ build # "aborted"
    /\ LET old == mainRagdoll[sim]
           changes == old # ragdoll
           released == IF changes /\ old # NULL
                       THEN [ragdollSimulation EXCEPT ![old] = NULL]
                       ELSE ragdollSimulation
           asserted == changes /\ ragdoll # NULL /\ released[ragdoll] # NULL
           taken == IF changes /\ ragdoll # NULL
                    THEN [released EXCEPT ![ragdoll] = sim]
                    ELSE released
       IN  \E b \in Builds(asserted) :
              /\ build' = b
              /\ mainRagdoll' = [mainRagdoll EXCEPT ![sim] = ragdoll]
              /\ ragdollSimulation' = IF asserted /\ b = "aborted" THEN released ELSE taken
    /\ UNCHANGED <<audioVars, entitySimulation, mainEntity, otherEntities, otherRagdolls>>

\* setEntity(entity) (lines 68-80); entity may be NULL
setEntity(sim, entity) ==
    /\ build # "aborted"
    /\ LET old == mainEntity[sim]
           changes == old # entity
           first == changes /\ old # NULL /\ entitySimulation[old] # sim
           released == IF changes /\ old # NULL
                       THEN [entitySimulation EXCEPT ![old] = NULL]
                       ELSE entitySimulation
           second == changes /\ entity # NULL /\ released[entity] # NULL
           taken == IF changes /\ entity # NULL
                    THEN [released EXCEPT ![entity] = sim]
                    ELSE released
       IN  \E b \in Builds(first \/ second) :
              /\ build' = b
              /\ IF first /\ b = "aborted"
                 THEN UNCHANGED <<entitySimulation, mainEntity>>
                 ELSE /\ mainEntity' = [mainEntity EXCEPT ![sim] = entity]
                      /\ entitySimulation' = IF second /\ b = "aborted" THEN released
                                             ELSE taken
    /\ UNCHANGED <<audioVars, ragdollSimulation, mainRagdoll, otherEntities, otherRagdolls>>

\* the bool addEntity(entity) returns when it returns (lines 82-107)
addEntityResult(sim, entity) ==
    IF entity = NULL THEN FALSE
    ELSE IF entitySimulation[entity] = sim THEN entity \in Listed(otherEntities[sim])
    ELSE Len(otherEntities[sim]) <= MAX_ENTITIES_PER_SIMULATION

\* addEntity(entity) (lines 82-107); entity may be NULL
addEntity(sim, entity) ==
    /\ build # "aborted"
    /\ LET adds == /\ entity # NULL
                   /\ entitySimulation[entity] # sim
                   /\ addEntityResult(sim, entity)
           asserted == adds /\ entitySimulation[entity] # NULL
       IN  \E b \in Builds(asserted) :
              /\ build' = b
              /\ IF adds /\ ~(asserted /\ b = "aborted")
                 THEN /\ entitySimulation' = [entitySimulation EXCEPT ![entity] = sim]
                      /\ otherEntities' = [otherEntities EXCEPT
                                              ![sim] = Append(@, entity)]
                 ELSE UNCHANGED <<entitySimulation, otherEntities>>
    /\ UNCHANGED <<audioVars, ragdollSimulation, mainEntity, mainRagdoll, otherRagdolls>>

\* removeEntity(entity) (lines 109-130); entity may be NULL
removeEntity(sim, entity) ==
    /\ build # "aborted"
    /\ IF entity # NULL /\ entitySimulation[entity] = sim
          /\ entity \in Listed(otherEntities[sim])
       THEN /\ otherEntities' = [otherEntities EXCEPT ![sim] = RemoveFirst(@, entity)]
            /\ entitySimulation' = [entitySimulation EXCEPT ![entity] = NULL]
       ELSE UNCHANGED <<entitySimulation, otherEntities>>
    /\ UNCHANGED <<audioVars, ragdollSimulation, mainEntity, mainRagdoll, otherRagdolls,
                   build>>

\* addRagdoll(doll) (lines 158-183); doll may be NULL
addRagdoll(sim, doll) ==
    /\ build # "aborted"
    /\ LET list == otherRagdolls[sim]
           adds == /\ doll # NULL
                   /\ Len(list) <= MAX_DOLLS_PER_SIMULATION
                   /\ ~(ragdollSimulation[doll] = sim /\ doll \in Listed(list))
           asserted == adds /\ ragdollSimulation[doll] # NULL
       IN  \E b \in Builds(asserted) :
              /\ build' = b
              /\ IF adds /\ ~(asserted /\ b = "aborted")
                 THEN /\ ragdollSimulation' = [ragdollSimulation EXCEPT ![doll] = sim]
                      /\ otherRagdolls' = [otherRagdolls EXCEPT ![sim] = Append(@, doll)]
                 ELSE UNCHANGED <<ragdollSimulation, otherRagdolls>>
    /\ UNCHANGED <<audioVars, entitySimulation, mainEntity, mainRagdoll, otherEntities>>

\* removeRagdoll(doll) (lines 185-206); doll may be NULL
removeRagdoll(sim, doll) ==
    /\ build # "aborted"
    /\ IF doll # NULL /\ ragdollSimulation[doll] = sim
          /\ doll \in Listed(otherRagdolls[sim])
       THEN /\ otherRagdolls' = [otherRagdolls EXCEPT ![sim] = RemoveFirst(@, doll)]
            /\ ragdollSimulation' = [ragdollSimulation EXCEPT ![doll] = NULL]
       ELSE UNCHANGED <<ragdollSimulation, otherRagdolls>>
    /\ UNCHANGED <<audioVars, entitySimulation, mainEntity, mainRagdoll, otherEntities,
                   build>>

(***************************************************************************)
(* Construction, start, and the specifications.                            *)
(***************************************************************************)
\* the client has been started
Started == desiredInputFormat # NullFormat

\* the state the constructor leaves, for the persisted settings given;
\* request is the negotiation the environment asks for next, if any, and
\* rendered the conversion it asks for next, if any
ConstructedWith(bufferFrames, starveEnabled, request, rendered) ==
    /\ audioInput = NULL
    /\ inputDevice = NULL
    /\ inputAudioDeviceName = ""
    /\ desiredInputFormat = NullFormat
    /\ inputFormat = NullFormat
    /\ numInputCallbackBytes = 0
    /\ inputRingBuffer = <<>>
    /\ inputToNetworkResampler = NULL
    /\ isStereoInput = FALSE
    /\ muted = FALSE
    /\ shouldEchoToServer = FALSE
    /\ shouldEchoLocally = FALSE
    /\ isNoiseGateEnabled = TRUE
    /\ audioSourceInjectEnabled = FALSE
    /\ lastInputLoudness = ZeroLoudness
    /\ timeSinceLastClip = -SAMPLE_RATE
    /\ outgoingAvatarAudioSequenceNumber = 0
    /\ audioMixer = "none"
    /\ datagrams = <<>>
    /\ frames = <<>>
    /\ inputSwitch = request
    /\ outputSwitch = [called |-> FALSE]
    /\ packetsSinceKill = -1
    /\ totalPackets = 0
    /\ audioOutput = NULL
    /\ outputAudioDeviceName = ""
    /\ desiredOutputFormat = NullFormat
    /\ outputFormat = NullFormat
    /\ outputFrameSize = 0
    /\ networkToOutputResampler = NULL
    /\ loopbackResampler = NULL
    /\ loopbackAudioOutput = NULL
    /\ loopbackOutputDevice = NULL
    /\ loopbackWritten = NULL
    /\ outputBufferSizeFrames = bufferFrames
    /\ outputStarveDetectionEnabled = starveEnabled
    /\ outputStarveDetectionPeriodMsec = StarvePeriod
    /\ outputStarveDetectionThreshold = StarveThreshold
    /\ outputStarveDetectionStartTimeMsec = 0
    /\ outputStarveDetectionCount = 0
    /\ unfulfilledReads = 0
    /\ now = 0
    /\ receivedAudioStream = <<>>
    /\ lastRead = [called |-> FALSE]
    /\ lastNotify = [called |-> FALSE]
    /\ lastRender = rendered
    /\ PhysicsConstructed
    /\ reverb = FALSE
    /\ streamReverb = [has |-> FALSE, reverbTime |-> 0, wetLevel |-> 0]
    /\ reverbOptions = "script"
    /\ scriptReverbOptions = DefaultEffectOptions
    /\ zoneReverbOptions = DefaultEffectOptions
    /\ gverbLocal = [sampleRate |-> NullFormat.sampleRate, options |-> DefaultEffectOptions,
                     fed |-> FALSE]
    /\ gverb = [sampleRate |-> NullFormat.sampleRate, options |-> DefaultEffectOptions,
                fed |-> FALSE]

\* the state the constructor leaves, nothing rendered yet
Constructed(bufferFrames, starveEnabled, request) ==
    ConstructedWith(bufferFrames, starveEnabled, request, [called |-> FALSE])

\* start(): the desired formats are set, then both directions are switched
\* to the default devices
Start ==
    /\ ~Started
    /\ \E startOk \in BOOLEAN :
          SwitchInputWith(defaultInputDevice, Format(SAMPLE_RATE, 1), isStereoInput,
                          Format(SAMPLE_RATE, 1), TRUE, startOk)
    /\ desiredOutputFormat' = Format(SAMPLE_RATE, 2)
    /\ SetRenderState(switchOutputToAudioDevice(defaultOutputDevice, Format(SAMPLE_RATE, 2),
                                                outputBufferSizeFrames,
                                                Format(SAMPLE_RATE, 2), TRUE))
    /\ UNCHANGED <<flagVars, packetVars, audioMixer, loopbackWritten, starveVars,
                   settingVars, physicsVars, streamVars, now, reverbVars>>

\* a session that has run on the default devices with the audio mixer
\* connected and has sent SEQ_MODULUS - 2 silent frames
LongSession ==
    /\ audioInput = [device |-> defaultInputDevice.name, format |-> Format(SAMPLE_RATE, 1)]
    /\ inputDevice = QIODevice
    /\ inputAudioDeviceName = defaultInputDevice.name
    /\ desiredInputFormat = Format(SAMPLE_RATE, 1)
    /\ inputFormat = Format(SAMPLE_RATE, 1)
    /\ numInputCallbackBytes = calculateNumberOfInputCallbackBytes(Format(SAMPLE_RATE, 1))
    /\ inputRingBuffer = <<>>
    /\ inputToNetworkResampler = NULL
    /\ isStereoInput = FALSE
    /\ muted = FALSE
    /\ shouldEchoToServer = FALSE
    /\ shouldEchoLocally = FALSE
    /\ isNoiseGateEnabled = TRUE
    /\ audioSourceInjectEnabled = FALSE
    /\ lastInputLoudness = ZeroLoudness
    /\ timeSinceLastClip = -SAMPLE_RATE
    /\ outgoingAvatarAudioSequenceNumber = SEQ_MODULUS - 2
    /\ audioMixer = "active"
    /\ datagrams = <<>>
    /\ frames = <<>>
    /\ inputSwitch = [device |-> defaultInputDevice, desired |-> Format(SAMPLE_RATE, 1),
                      called |-> TRUE, negotiated |-> TRUE, ok |-> TRUE,
                      format |-> Format(SAMPLE_RATE, 1), supportedFormat |-> TRUE]
    /\ outputSwitch = [device |-> defaultOutputDevice, desired |-> Format(SAMPLE_RATE, 2),
                       called |-> TRUE, negotiated |-> TRUE, ok |-> TRUE,
                       format |-> Format(SAMPLE_RATE, 2), supportedFormat |-> TRUE]
    /\ packetsSinceKill = -1
    /\ totalPackets = 0
    /\ audioOutput = [device |-> defaultOutputDevice.name, format |-> Format(SAMPLE_RATE, 2),
                      bufferSize |-> (MAX_AUDIO_OUTPUT_BUFFER_SIZE_FRAMES \div 2)
                                     * OutputFrameSizeFor(Format(SAMPLE_RATE, 2),
                                                          Format(SAMPLE_RATE, 2))
                                     * BYTES_PER_SAMPLE]
    /\ outputAudioDeviceName = defaultOutputDevice.name
    /\ desiredOutputFormat = Format(SAMPLE_RATE, 2)
    /\ outputFormat = Format(SAMPLE_RATE, 2)
    /\ outputFrameSize = OutputFrameSizeFor(Format(SAMPLE_RATE, 2), Format(SAMPLE_RATE, 2))
    /\ networkToOutputResampler = NULL
    /\ loopbackResampler = NULL
    /\ loopbackAudioOutput = [device |-> defaultOutputDevice.name,
                              format |-> Format(SAMPLE_RATE, 2)]
    /\ loopbackOutputDevice = NULL
    /\ loopbackWritten = NULL
    /\ outputBufferSizeFrames = MAX_AUDIO_OUTPUT_BUFFER_SIZE_FRAMES \div 2
    /\ outputStarveDetectionEnabled = TRUE
    /\ outputStarveDetectionPeriodMsec = StarvePeriod
    /\ outputStarveDetectionThreshold = StarveThreshold
    /\ outputStarveDetectionStartTimeMsec = 0
    /\ outputStarveDetectionCount = 0
    /\ unfulfilledReads = 0
    /\ now = 0
    /\ receivedAudioStream = <<>>
    /\ lastRead = [called |-> FALSE]
    /\ lastNotify = [called |-> FALSE]
    /\ lastRender = [called |-> FALSE]
    /\ PhysicsConstructed
    /\ reverb = FALSE
    /\ streamReverb = [has |-> FALSE, reverbTime |-> 0, wetLevel |-> 0]
    /\ reverbOptions = "script"
    /\ scriptReverbOptions = DefaultEffectOptions
    /\ zoneReverbOptions = DefaultEffectOptions
    /\ gverbLocal = [sampleRate |-> NullFormat.sampleRate, options |-> DefaultEffectOptions,
                     fed |-> FALSE]
    /\ gverb = [sampleRate |-> NullFormat.sampleRate, options |-> DefaultEffectOptions,
                fed |-> FALSE]

\* the packetizer: capture callbacks on the default device, mute, echo,
\* stereo selection, and the audio mixer coming and going
Init == Constructed(MAX_AUDIO_OUTPUT_BUFFER_SIZE_FRAMES \div 2, TRUE, [called |-> FALSE])

Next ==
    \/ Start
    \/ \E stereo \in BOOLEAN : Started /\ SetIsStereoInput(stereo)
    \/ \E buf \in CaptureBuffers, gateOpen \in BOOLEAN : HandleAudioInput(buf, gateOpen, TRUE)
    \/ ToggleMute
    \/ ToggleServerEcho
    \/ \E m \in {"none", "inactive", "active"} : MixerChanges(m)

Spec == Init /\ [][Next]_vars

\* the sequence number: capture callbacks, mute, the audio mixer coming,
\* going and being killed, from construction and late in a long session
InitSequence == Init \/ LongSession

NextSequence ==
    \/ Start
    \/ \E buf \in CaptureBuffers, gateOpen \in BOOLEAN : HandleAudioInput(buf, gateOpen, TRUE)
    \/ AudioMixerKilled
    \/ ToggleMute
    \/ \E m \in {"none", "inactive", "active"} : MixerChanges(m)

SpecSequence == InitSequence /\ [][NextSequence]_vars

\* the capture direction: switches between the listed devices and stereo
\* selection, with capture callbacks in between
NextCapture ==
    \/ Start
    \/ \E dev \in InputDevices \cup {NullDevice} : Started /\ SwitchInputToAudioDevice(dev)
    \/ \E stereo \in BOOLEAN : Started /\ SetIsStereoInput(stereo)
    \/ \E buf \in CaptureBuffers, gateOpen \in BOOLEAN : HandleAudioInput(buf, gateOpen, TRUE)

SpecCapture == Init /\ [][NextCapture]_vars

\* the render direction under starvation: persisted settings, the device
\* going away, buffer-size requests, reads of an empty stream, notify ticks
PersistedBufferSizes ==
    { MIN_AUDIO_OUTPUT_BUFFER_SIZE_FRAMES - 1, MIN_AUDIO_OUTPUT_BUFFER_SIZE_FRAMES,
      MAX_AUDIO_OUTPUT_BUFFER_SIZE_FRAMES - 1, MAX_AUDIO_OUTPUT_BUFFER_SIZE_FRAMES,
      MAX_AUDIO_OUTPUT_BUFFER_SIZE_FRAMES + 1 }

InitRender ==
    \E bufferFrames \in PersistedBufferSizes, starveEnabled \in BOOLEAN :
        Constructed(bufferFrames, starveEnabled, [called |-> FALSE])

NextRender ==
    \/ Start
    \/ Started /\ SwitchOutputToAudioDevice(NullDevice)
    \/ \E numFrames \in {MIN_AUDIO_OUTPUT_BUFFER_SIZE_FRAMES - 1,
                         MAX_AUDIO_OUTPUT_BUFFER_SIZE_FRAMES + 1} :
          SetOutputBufferSize(numFrames)
    \/ \E maxSize \in {0, NETWORK_FRAME_BYTES_STEREO}, unplayed \in {0, BYTES_PER_SAMPLE} :
          ReadData(maxSize, unplayed)
    \/ OutputNotify
    \/ Tick

SpecRender == InitRender /\ [][NextRender]_vars

\* the received stream: mixed frames arrive, the render device reads
NextStream ==
    \/ Start
    \/ \E dev \in OutputDevices : Started /\ SwitchOutputToAudioDevice(dev)
    \/ \E frame \in NetworkFrames : AddReceivedAudioToStream(frame)
    \/ \E maxSize \in ReadSizes : ReadData(maxSize, BYTES_PER_SAMPLE)

SpecStream == Init /\ [][NextStream]_vars

\* format negotiation on its own: any device supporting up to
\* MaxDeviceFormats of the formats below, asked for any of them
NegotiationFormats ==
    { Format(r, c) : r \in {8000, HALF_FORTY_FOUR, SAMPLE_RATE, FORTY_FOUR, SAMPLE_RATE * 2},
                     c \in {1, 2} }

NegotiationDevices ==
    { Device("device", fs) :
        fs \in { S \in SUBSET NegotiationFormats : Cardinality(S) <= MaxDeviceFormats } }

InitNegotiate ==
    \E dev \in NegotiationDevices, desired \in NegotiationFormats :
        Constructed(MAX_AUDIO_OUTPUT_BUFFER_SIZE_FRAMES \div 2, TRUE,
                    [called |-> FALSE, device |-> dev, desired |-> desired])

\* adjustedFormatForAudioDevice applied to the request
Negotiate ==
    /\ ~inputSwitch.called
    /\ \E near \in NearestChoices(inputSwitch.device, inputSwitch.desired) :
          LET adj == adjustedFormatForAudioDevice(inputSwitch.device, inputSwitch.desired, near)
          IN  inputSwitch' = [device |-> inputSwitch.device, desired |-> inputSwitch.desired,
                              called |-> TRUE, negotiated |-> TRUE, ok |-> adj.ok,
                              format |-> adj.format, supportedFormat |-> FALSE]
    /\ UNCHANGED <<audioInput, inputDevice, inputAudioDeviceName, desiredInputFormat,
                   inputFormat, numInputCallbackBytes, inputRingBuffer,
                   inputToNetworkResampler, isStereoInput, flagVars, packetVars, audioMixer,
                   outputDeviceVars, loopbackVars, starveVars, settingVars, physicsVars, streamVars, now,
                   reverbVars>>

NextNegotiate == Negotiate

SpecNegotiate == InitNegotiate /\ [][NextNegotiate]_vars

(***************************************************************************)
(* The outgoing sequence number.                                           *)
(***************************************************************************)
\* the quanta of a call for which a packet was handed to writeDatagram
SentQuanta(fs) == Cardinality({ i \in 1..Len(fs) : fs[i].sent })

\* a step of handleAudioInput on a captured buffer
IsHandleAudioInput(buf, gateOpen) ==
    /\ muted' = muted
    /\ audioMixer' = audioMixer
    /\ inputSwitch' = inputSwitch
    /\ HandleAudioInput(buf, gateOpen, TRUE)

C2_RestartsFromZeroAfterKill ==
    /\ packetsSinceKill >= 0 =>
          outgoingAvatarAudioSequenceNumber = packetsSinceKill % SEQ_MODULUS
    /\ \A i \in 1..Len(datagrams) :
          datagrams[i].sinceKill >= 0 =>
              datagrams[i].sequence = datagrams[i].sinceKill % SEQ_MODULUS

\* C2 witness: packets had been sent, the audio mixer was killed, and the
\* next call sent two packets carrying 0 and 1
C2_Witness ==
    /\ totalPackets = 3
    /\ Len(datagrams) = 2
    /\ datagrams[1].sinceKill = 0 /\ datagrams[1].sequence = 0
    /\ datagrams[2].sinceKill = 1 /\ datagrams[2].sequence = 1
    /\ outgoingAvatarAudioSequenceNumber = 2

\* C3: the sequence number and every packed value lie in 0..65535; a call
\* that sends packets numbers them consecutively modulo 2^16, so 65535 is
\* followed by 0, and everything else the call leaves behind is what it
\* would leave had the sequence number been any other value.
C3_WrapsAtSixteenBits ==
    [][\A buf \in CaptureBuffers, gateOpen \in BOOLEAN :
          IsHandleAudioInput(buf, gateOpen) =>
              LET ref == handleAudioInput(buf, gateOpen, 0)
              IN  /\ outgoingAvatarAudioSequenceNumber' \in 0..(SEQ_MODULUS - 1)
                  /\ \A i \in 1..Len(datagrams') :
                        /\ datagrams'[i].sequence \in 0..(SEQ_MODULUS - 1)
                        /\ datagrams'[i].sequence =
                              (outgoingAvatarAudioSequenceNumber + i - 1) % SEQ_MODULUS
                        /\ datagrams'[i].sequence = SEQ_MODULUS - 1 =>
                              IF i < Len(datagrams')
                              THEN datagrams'[i + 1].sequence = 0
                              ELSE outgoingAvatarAudioSequenceNumber' = 0
                        /\ datagrams'[i].type = ref.packets[i].type
                        /\ datagrams'[i].sinceKill = ref.packets[i].sinceKill
                  /\ Len(datagrams') = Len(ref.packets)
                  /\ frames' = ref.frames
                  /\ inputRingBuffer' = ref.ring
                  /\ lastInputLoudness' = ref.loudness
                  /\ timeSinceLastClip' = ref.timer
                  /\ packetsSinceKill' = ref.since]_vars

\* C3 witness: one call has sent the packets numbered 65535 and 0, and the
\* sequence number stands at 1
C3_Witness ==
    /\ Len(datagrams) = 2
    /\ datagrams[1].sequence = SEQ_MODULUS - 1
    /\ datagrams[2].sequence = 0
    /\ outgoingAvatarAudioSequenceNumber = 1
    /\ packetsSinceKill = -1

(***************************************************************************)
(* Packets: mute, packet kind, absence of the audio mixer.                 *)
(***************************************************************************)
\* C6: a quantum drained while muted leaves loudness 0 and the clip timer at
\* 0, and the packet emitted for it, if any, is a silent-frame packet.
C6_MutedQuantaAreSilent ==
    /\ \A i \in 1..Len(frames) :
          frames[i].muted => /\ frames[i].loudness = ZeroLoudness
                             /\ frames[i].timer = 0
    /\ \A k \in 1..Len(datagrams) :
          frames[datagrams[k].frame].muted => datagrams[k].type = "SilentAudioFrame"
    /\ (Len(frames) > 0 /\ frames[Len(frames)].muted) =>
          /\ lastInputLoudness = ZeroLoudness
          /\ timeSinceLastClip = 0

\* C6 witness: a voice packet has been sent, then one muted call has sent
\* two silent-frame packets, leaving loudness and clip timer at 0
C6_Witness ==
    /\ totalPackets = 3
    /\ Len(datagrams) = 2
    /\ \A k \in 1..2 : frames[k].muted /\ datagrams[k].type = "SilentAudioFrame"
    /\ datagrams[1].sequence = 1
    /\ lastInputLoudness = ZeroLoudness
    /\ timeSinceLastClip = 0

\* C7: a packet is a silent-frame packet exactly when the loudness of its
\* frame is zero; any other packet is a voice packet, with echo exactly when
\* the echo-to-server flag is set.
C7_PacketKindFollowsLoudness ==
    [][(\E buf \in CaptureBuffers, gateOpen \in BOOLEAN :
            IsHandleAudioInput(buf, gateOpen)) =>
              \A k \in 1..Len(datagrams') :
                  LET p == datagrams'[k]
                      f == frames'[p.frame]
                  IN  /\ p.type = "SilentAudioFrame" <=> f.loudness.num = 0
                      /\ p.type # "SilentAudioFrame" =>
                            /\ p.type \in {"MicrophoneAudioWithEcho", "MicrophoneAudioNoEcho"}
                            /\ p.type = "MicrophoneAudioWithEcho" <=> shouldEchoToServer]_vars

\* C7 witness: with echo-to-server set, one unmuted call has sent a
\* silent-frame packet for a frame of zero loudness and a voice packet with
\* echo for a frame of non-zero loudness
C7_Witness ==
    /\ shouldEchoToServer
    /\ Len(datagrams) = 2
    /\ ~frames[1].muted
    /\ frames[1].loudness.num = 0 /\ datagrams[1].type = "SilentAudioFrame"
    /\ frames[2].loudness.num > 0 /\ datagrams[2].type = "MicrophoneAudioWithEcho"

\* C8: a call made while no audio mixer with an active socket is known
\* drains every full quantum, updates loudness and clip timer from the last
\* of them, sends nothing and leaves the sequence number alone; a call made
\* while one is known sends exactly one packet per quantum it drains, none
\* for quanta drained earlier.
C8_NoMixerDrainsWithoutSending ==
    [][\A buf \in CaptureBuffers, gateOpen \in BOOLEAN :
          IsHandleAudioInput(buf, gateOpen) =>
              LET quanta == (Len(inputRingBuffer) + Len(buf)) \div inputSamplesRequired
              IN  /\ Len(frames') = quanta
                  /\ Len(inputRingBuffer') < inputSamplesRequired
                  /\ Len(inputRingBuffer') =
                        Len(inputRingBuffer) + Len(buf) - quanta * inputSamplesRequired
                  /\ quanta > 0 =>
                        /\ lastInputLoudness' = frames'[quanta].loudness
                        /\ timeSinceLastClip' = frames'[quanta].timer
                  /\ audioMixer # "active" =>
                        /\ datagrams' = <<>>
                        /\ totalPackets' = totalPackets
                        /\ outgoingAvatarAudioSequenceNumber' =
                              outgoingAvatarAudioSequenceNumber
                  /\ audioMixer = "active" =>
                        /\ Len(datagrams') = quanta
                        /\ \A k \in 1..quanta : datagrams'[k].frame = k]_vars

\* C8 witness: the audio mixer is known without an active socket, and a call
\* has drained two clipping quanta, updating loudness and clip timer and
\* sending nothing
C8_Witness ==
    /\ audioMixer = "inactive"
    /\ Len(frames) = 2
    /\ SentQuanta(frames) = 0
    /\ datagrams = <<>>
    /\ totalPackets = 0
    /\ inputRingBuffer = <<>>
    /\ lastInputLoudness.num > 0
    /\ timeSinceLastClip = 0
    /\ ~frames[2].muted

(***************************************************************************)
(* Starvation and the output buffer size.                                  *)
(***************************************************************************)
\* C4: whatever the persisted starting size and the notify ticks, the output
\* buffer size lies between MIN_AUDIO_OUTPUT_BUFFER_SIZE_FRAMES and
\* MAX_AUDIO_OUTPUT_BUFFER_SIZE_FRAMES in every state, and a tick that
\* crosses the threshold leaves it exactly one frame larger.
C4_CrossingGrowsByOneWithinLimits ==
    /\ outputBufferSizeFrames >= MIN_AUDIO_OUTPUT_BUFFER_SIZE_FRAMES
    /\ outputBufferSizeFrames <= MAX_AUDIO_OUTPUT_BUFFER_SIZE_FRAMES
    /\ (lastNotify.called /\ lastNotify.crossed) =>
          lastNotify.after = lastNotify.before + 1

\* C4 witness: the session started from a persisted size one above the
\* maximum, and a tick that crossed the threshold has made it smaller
C4_Witness ==
    /\ lastNotify.called
    /\ lastNotify.crossed
    /\ lastNotify.before = MAX_AUDIO_OUTPUT_BUFFER_SIZE_FRAMES + 1
    /\ lastNotify.after = MAX_AUDIO_OUTPUT_BUFFER_SIZE_FRAMES
    /\ outputBufferSizeFrames = MAX_AUDIO_OUTPUT_BUFFER_SIZE_FRAMES

(***************************************************************************)
(* readData.                                                               *)
(***************************************************************************)
\* C5: readData reports at most maxSize bytes; when the stream yields k > 0
\* samples it copies exactly those, in order, pops them and reports 2k
\* bytes; when it yields none it zeroes the whole region of maxSize bytes
\* and reports maxSize.
C5_ReadDataReportsWhatItWrote ==
    lastRead.called =>
        LET k == lastRead.samplesPopped
        IN  /\ lastRead.bytesWritten <= lastRead.maxSize
            /\ Len(lastRead.data) = lastRead.maxSize
            /\ k > 0 =>
                  /\ lastRead.bytesWritten = BYTES_PER_SAMPLE * k
                  /\ \A i \in 1..k :
                        /\ lastRead.data[2 * i - 1] = SampleByte(lastRead.available[i], 0)
                        /\ lastRead.data[2 * i] = SampleByte(lastRead.available[i], 1)
                  /\ \A i \in (2 * k + 1)..lastRead.maxSize : lastRead.data[i] = Untouched
            /\ k = 0 =>
                  /\ lastRead.bytesWritten = lastRead.maxSize
                  /\ \A i \in 1..lastRead.maxSize : lastRead.data[i] = ZeroByte

\* C5 witness: the render device asked for more than the stream held, and
\* readData copied the samples there were and reported their bytes
C5_Witness ==
    /\ lastRead.called
    /\ lastRead.samplesPopped = Len(lastRead.available)
    /\ lastRead.samplesPopped >= NETWORK_FRAME_SAMPLES_STEREO
    /\ BYTES_PER_SAMPLE * lastRead.samplesPopped < lastRead.maxSize
    /\ lastRead.bytesWritten = BYTES_PER_SAMPLE * lastRead.samplesPopped
    /\ receivedAudioStream = <<>>

(***************************************************************************)
(* Format negotiation.                                                     *)
(***************************************************************************)
\* C9: when the device supports the desired format,
\* adjustedFormatForAudioDevice returns true and leaves the desired format,
\* value for value, as the chosen one.
C9_SupportedFormatIsChosen ==
    (inputSwitch.called /\ isFormatSupported(inputSwitch.device, inputSwitch.desired)) =>
        /\ inputSwitch.ok
        /\ inputSwitch.format = inputSwitch.desired
        /\ inputSwitch.format.sampleRate = inputSwitch.desired.sampleRate
        /\ inputSwitch.format.channelCount = inputSwitch.desired.channelCount

\* C9 witness: a device supporting mono 44100 Hz and a 48000 Hz format was
\* asked for mono 44100 Hz, and that format was chosen
C9_Witness ==
    /\ inputSwitch.called
    /\ inputSwitch.desired = Format(FORTY_FOUR, 1)
    /\ isFormatSupported(inputSwitch.device, inputSwitch.desired)
    /\ (SAMPLE_RATE * 2) \in supportedSampleRates(inputSwitch.device)
    /\ inputSwitch.ok
    /\ inputSwitch.format = Format(FORTY_FOUR, 1)

\* the last capture switch asked for a mono format the device does not
\* support while it supports the same format with two channels
MonoOnStereoOnlyDevice ==
    /\ inputSwitch.called
    /\ inputSwitch.negotiated
    /\ inputSwitch.desired.channelCount = 1
    /\ ~isFormatSupported(inputSwitch.device, inputSwitch.desired)
    /\ isFormatSupported(inputSwitch.device, SetChannelCount(inputSwitch.desired, 2))

\* C10: when the desired format is mono and unsupported while its
\* two-channel variant is supported, negotiation succeeds with the desired
\* format at two channels, the switch leaves no capture resampler, and
\* every unmuted quantum captured afterwards reaches the network format
\* through the stereo-to-mono conversion alone: each network sample is the
\* sum of the halves of one left/right pair.
C10_MonoRequestOnStereoDevice ==
    /\ [](MonoOnStereoOnlyDevice =>
            /\ inputSwitch.ok
            /\ inputSwitch.format = SetChannelCount(inputSwitch.desired, 2)
            /\ inputSwitch.format.sampleRate = inputSwitch.desired.sampleRate
            /\ inputToNetworkResampler = NULL
            /\ inputFormat = inputSwitch.format)
    /\ [][(/\ MonoOnStereoOnlyDevice
            /\ \E buf \in CaptureBuffers, gateOpen \in BOOLEAN :
                  IsHandleAudioInput(buf, gateOpen)) =>
                 \A i \in 1..Len(frames') :
                     ~frames'[i].muted =>
                         /\ frames'[i].kind = "stereoToMono"
                         /\ ~frames'[i].resampled
                         /\ Len(frames'[i].source) = 2 * NETWORK_FRAME_SAMPLES_PER_CHANNEL
                         /\ Len(frames'[i].converted) = NETWORK_FRAME_SAMPLES_PER_CHANNEL
                         /\ \A j \in 1..NETWORK_FRAME_SAMPLES_PER_CHANNEL :
                               frames'[i].converted[j] =
                                   TruncDiv(frames'[i].source[2 * j - 1], 2)
                                       + TruncDiv(frames'[i].source[2 * j], 2)]_vars

\* C10 witness: the capture device supports only two-channel 24000 Hz, the
\* mono request was negotiated to two channels without a resampler, and a
\* call has converted a stereo quantum of the sample -3 to mono samples -2
C10_Witness ==
    /\ MonoOnStereoOnlyDevice
    /\ inputSwitch.device.name = "mic-stereo"
    /\ inputSwitch.format = Format(SAMPLE_RATE, 2)
    /\ inputToNetworkResampler = NULL
    /\ inputDevice # NULL
    /\ Len(frames) = 1
    /\ frames[1].kind = "stereoToMono"
    /\ frames[1].source = [j \in 1..NETWORK_FRAME_SAMPLES_STEREO |-> -3]
    /\ frames[1].converted = [j \in 1..NETWORK_FRAME_SAMPLES_PER_CHANNEL |-> -2]

\* the last negotiation was for a format the device does not support
UnsupportedRequest ==
    /\ inputSwitch.called
    /\ inputSwitch.negotiated
    /\ ~isFormatSupported(inputSwitch.device, inputSwitch.desired)

\* the two-channel retry of a mono request applies
StereoRetryApplies ==
    /\ inputSwitch.desired.channelCount = 1
    /\ isFormatSupported(inputSwitch.device, SetChannelCount(inputSwitch.desired, 2))

\* the sample rate the fallback asks for: the first of 48000, 22050 and
\* 44100 Hz among the device's supported rates, else the desired rate
FallbackRate ==
    LET rates == supportedSampleRates(inputSwitch.device)
    IN  IF 48000 \in rates THEN 48000
        ELSE IF 22050 \in rates THEN 22050
        ELSE IF 44100 \in rates THEN 44100
        ELSE inputSwitch.desired.sampleRate

\* C11 as stated: for an unsupported desired format
\* adjustedFormatForAudioDevice returns false only when the device's nearest
\* format equals the desired format, and otherwise returns true with the
\* device's nearest format as the chosen one.
C11_FailsOnlyWhenNearestIsDesired ==
    UnsupportedRequest =>
        LET nearest == nearestFormat(inputSwitch.device, inputSwitch.desired)
        IN  /\ ~inputSwitch.ok => inputSwitch.desired \in nearest
            /\ inputSwitch.ok => inputSwitch.format \in nearest

\* C11 amended: for an unsupported desired format the function returns
\* false exactly when the two-channel retry does not apply and the fallback
\* request (the desired format at the fallback rate) equals the desired
\* format, whatever the device's nearest format is; the chosen format is
\* then the desired one.  With the retry it returns true with the desired
\* format at two channels; otherwise true with nearestFormat of the
\* fallback request.
C11_FailsWhenFallbackRequestIsDesired ==
    UnsupportedRequest =>
        /\ inputSwitch.ok <=>
              (StereoRetryApplies \/ FallbackRate # inputSwitch.desired.sampleRate)
        /\ ~inputSwitch.ok => inputSwitch.format = inputSwitch.desired
        /\ StereoRetryApplies =>
              inputSwitch.format = SetChannelCount(inputSwitch.desired, 2)
        /\ (~StereoRetryApplies /\ inputSwitch.ok) =>
              inputSwitch.format \in
                  nearestFormat(inputSwitch.device,
                                SetSampleRate(inputSwitch.desired, FallbackRate))

\* C11 witness: a device supporting only mono 8000 Hz was asked for mono
\* 24000 Hz; its nearest format differs from the desired one, and the
\* negotiation has failed
C11_Witness ==
    /\ UnsupportedRequest
    /\ inputSwitch.device.supported = {Format(8000, 1)}
    /\ inputSwitch.desired = Format(SAMPLE_RATE, 1)
    /\ nearestFormat(inputSwitch.device, inputSwitch.desired) = {Format(8000, 1)}
    /\ ~inputSwitch.ok

(***************************************************************************)
(* Sample conversion on its own.                                           *)
(***************************************************************************)
\* the 16-bit samples conversions are tried on: both extremes, zero, and
\* odd values of either sign
ConversionSamples == {-MAX_SAMPLE_VALUE - 1, -3, -1, 0, 1, MAX_SAMPLE_VALUE}

\* source buffers of up to MaxConversionPairs pairs of samples
ConversionBuffers ==
    UNION { [1..(2 * k) -> ConversionSamples] : k \in 1..MaxConversionPairs }

ConversionFormats == { Format(SAMPLE_RATE, c) : c \in {1, 2} }

InitConvert ==
    \E s \in ConversionBuffers, src \in ConversionFormats, dst \in ConversionFormats :
        ConstructedWith(MAX_AUDIO_OUTPUT_BUFFER_SIZE_FRAMES \div 2, TRUE, [called |-> FALSE],
                        [called |-> FALSE, input |-> s, src |-> src, dst |-> dst])

\* possibleResampling without a resampler applied to the request
Convert ==
    /\ ~lastRender.called
    /\ LET r == possibleResampling(NULL, lastRender.input, Len(lastRender.input),
                                   lastRender.src, lastRender.dst)
       IN  lastRender' = [called |-> TRUE, input |-> lastRender.input,
                          src |-> lastRender.src, dst |-> lastRender.dst,
                          samples |-> r.out, kind |-> r.kind, resampled |-> r.resampled]
    /\ UNCHANGED <<captureVars, flagVars, packetVars, audioMixer, outputDeviceVars,
                   loopbackVars, starveVars, settingVars, physicsVars, lastRead, now, reverbVars>>

NextConvert == Convert

SpecConvert == InitConvert /\ [][NextConvert]_vars

\* h is a halved towards zero: twice h is within one of a and no larger in
\* magnitude
IsHalfTowardZero(h, a) == Abs(a - 2 * h) <= 1 /\ Abs(2 * h) <= Abs(a)

\* C12: stereo-to-mono conversion writes one sample per input pair, in
\* order, each the sum of the two samples halved separately with truncation
\* toward zero, and not the halved sum.
C12_StereoToMonoHalvesEachSample ==
    (lastRender.called /\ lastRender.src.channelCount = 2 /\ lastRender.dst.channelCount = 1) =>
        /\ lastRender.kind = "stereoToMono"
        /\ Len(lastRender.samples) * 2 = Len(lastRender.input)
        /\ \A i \in 1..Len(lastRender.samples) :
              LET a == lastRender.input[2 * i - 1]
                  b == lastRender.input[2 * i]
              IN  \E ha \in {a \div 2, a \div 2 + 1}, hb \in {b \div 2, b \div 2 + 1} :
                     /\ IsHalfTowardZero(ha, a)
                     /\ IsHalfTowardZero(hb, b)
                     /\ lastRender.samples[i] = ha + hb

\* C12 witness: the pair (1, 1) followed by the pair (-3, -1) has been
\* converted to 0 and -1, where halving the sums would give 1 and -2
C12_Witness ==
    /\ lastRender.called
    /\ lastRender.src.channelCount = 2
    /\ lastRender.dst.channelCount = 1
    /\ lastRender.input = <<1, 1, -3, -1>>
    /\ lastRender.samples = <<0, -1>>

(***************************************************************************)
(* The destination sample counts of the three resample calls.              *)
(***************************************************************************)
\* a capture device at a rate the negotiation can fall back to
ResampleInputDevices == { Device("mic-22k", {Format(HALF_FORTY_FOUR, 1)}) }

\* a render device at a rate the negotiation can fall back to
ResampleOutputDevices == { Device("out-22k-mono", {Format(HALF_FORTY_FOUR, 1)}) }

\* the buffers the capture device delivers here: one or two network frames
\* of one value
ResampleBuffers == { [i \in 1..(k * FrameScale) |-> -3] : k \in 1..2 }

\* the network frame the mixer sends here
ResampleFrame == [i \in 1..NETWORK_FRAME_SAMPLES_STEREO |-> 5]

NextResample ==
    \/ Start
    \/ Started /\ \E dev \in ResampleInputDevices : SwitchInputToAudioDevice(dev)
    \/ Started /\ \E dev \in ResampleOutputDevices : SwitchOutputToAudioDevice(dev)
    \/ ToggleLocalEcho
    \/ \E buf \in ResampleBuffers, soxrOk \in BOOLEAN : HandleAudioInput(buf, TRUE, soxrOk)
    \/ AddReceivedAudioToStream(ResampleFrame)

SpecResample == Init /\ [][NextResample]_vars

\* C13 as stated: at each of the three resample calls (capture to network,
\* network to output, local loopback) the destination sample count asked
\* for is round(srcSamples * dstRate/srcRate * dstChannels/srcChannels).
C13_EveryCallRequestsRoundedCount ==
    [][/\ frames' # frames =>
             \A i \in 1..Len(frames') :
                ~frames'[i].muted =>
                    Len(frames'[i].converted) =
                        numDestinationSamplesRequired(inputFormat, desiredInputFormat,
                                                      Len(frames'[i].source))
       /\ lastRender' # lastRender =>
             Len(lastRender'.samples) =
                 numDestinationSamplesRequired(desiredOutputFormat, outputFormat,
                                               Len(lastRender'.input))
       /\ loopbackWritten' # loopbackWritten =>
             Len(loopbackWritten'.samples) =
                 numDestinationSamplesRequired(inputFormat, outputFormat,
                                               Len(loopbackWritten'.input))]_vars

\* C13 witness: on a mono 22050 Hz output device a network frame has been
\* rendered with a destination count one short of the rounded product
C13_Witness ==
    /\ lastRender.called
    /\ outputFormat = Format(HALF_FORTY_FOUR, 1)
    /\ Len(lastRender.input) = NETWORK_FRAME_SAMPLES_STEREO
    /\ Len(lastRender.samples) + 1 =
          numDestinationSamplesRequired(desiredOutputFormat, outputFormat,
                                        Len(lastRender.input))

(***************************************************************************)
(* The clip timer.                                                         *)
(***************************************************************************)
\* the duration of one network frame, in units of 1/SAMPLE_RATE seconds
NetworkFrameDuration == NETWORK_FRAME_SAMPLES_PER_CHANNEL

\* the clip timer before quantum i of the call that left the log fs,
\* started with the timer at t
TimerBefore(fs, t, i) == IF i = 1 THEN t ELSE fs[i - 1].timer

\* C14 as stated: the clip timer starts at the negative sentinel; a frame
\* with a clipped sample leaves it at 0; every further non-clipping unmuted
\* frame adds the duration of one network frame to it, so that N such
\* frames leave it at N times that duration, for mono and stereo input alike.
C14_TimerCountsNetworkFrames ==
    [][/\ ~Started => timeSinceLastClip = -SAMPLE_RATE
       /\ (\E buf \in CaptureBuffers, gateOpen \in BOOLEAN :
               IsHandleAudioInput(buf, gateOpen)) =>
             \A i \in 1..Len(frames') :
                ~frames'[i].muted =>
                    LET before == TimerBefore(frames', timeSinceLastClip, i)
                    IN  frames'[i].timer =
                            IF Clips(frames'[i].converted) THEN 0
                            ELSE IF before >= 0 THEN before + NetworkFrameDuration
                            ELSE before]_vars

\* C14 witness: with stereo input, one non-clipping frame after the timer
\* stood at 0 has left it at the duration of two network frames
C14_Witness ==
    /\ isStereoInput
    /\ Len(frames) = 1
    /\ ~frames[1].muted
    /\ ~Clips(frames[1].converted)
    /\ frames[1].timer = 2 * NetworkFrameDuration
    /\ timeSinceLastClip = 2 * NetworkFrameDuration

(***************************************************************************)
(* Device switches in both directions.                                     *)
(***************************************************************************)
NextSwitch ==
    \/ Start
    \/ Started /\ \E dev \in InputDevices \cup {NullDevice} : SwitchInputToAudioDevice(dev)
    \/ Started /\ \E dev \in OutputDevices \cup {NullDevice} : SwitchOutputToAudioDevice(dev)
    \/ Started /\ \E stereo \in BOOLEAN : SetIsStereoInput(stereo)

SpecSwitch == Init /\ [][NextSwitch]_vars

\* C15: for each direction whose most recent switch returned true, the
\* resampler of that direction is present exactly when the device format and
\* the network format differ in sample rate; a difference in channel count
\* alone leaves the direction without a resampler.
C15_ResamplerIffRatesDiffer ==
    /\ (inputSwitch.called /\ inputSwitch.supportedFormat) =>
          (inputToNetworkResampler # NULL
              <=> inputFormat.sampleRate # desiredInputFormat.sampleRate)
    /\ (outputSwitch.called /\ outputSwitch.supportedFormat) =>
          (networkToOutputResampler # NULL
              <=> outputFormat.sampleRate # desiredOutputFormat.sampleRate)

\* C15 witness: both directions switched with success, the input to a
\* two-channel device at the network rate for a mono request (no resampler),
\* the output to a device at twice the network rate (resampler present)
C15_Witness ==
    /\ inputSwitch.called
    /\ inputSwitch.supportedFormat
    /\ inputFormat = Format(SAMPLE_RATE, 2)
    /\ desiredInputFormat = Format(SAMPLE_RATE, 1)
    /\ inputToNetworkResampler = NULL
    /\ outputSwitch.called
    /\ outputSwitch.supportedFormat
    /\ outputFormat.sampleRate = 2 * SAMPLE_RATE
    /\ desiredOutputFormat.sampleRate = SAMPLE_RATE
    /\ networkToOutputResampler # NULL

(***************************************************************************)
(* Failing resampler creation.                                             *)
(***************************************************************************)
\* the devices switched between here: the defaults, and one device per
\* direction at twice the network rate
LoopbackInputDevices == { defaultInputDevice, Device("mic-48k", {Format(2 * SAMPLE_RATE, 2)}) }

LoopbackOutputDevices == { defaultOutputDevice, Device("out-48k", {Format(2 * SAMPLE_RATE, 2)}) }

\* the buffers the capture device delivers here: one network frame of one
\* value at the network rate or at twice that rate in stereo
LoopbackBuffers == { [i \in 1..(k * FrameScale) |-> -3] : k \in {1, 4} }

NextLoopback ==
    \/ Start
    \/ Started /\ \E dev \in LoopbackInputDevices : SwitchInputToAudioDevice(dev)
    \/ Started /\ \E dev \in LoopbackOutputDevices : SwitchOutputToAudioDevice(dev)
    \/ ToggleLocalEcho
    \/ MixerChanges("active")
    \/ \E buf \in LoopbackBuffers, soxrOk \in BOOLEAN : HandleAudioInput(buf, TRUE, soxrOk)
    \/ Started /\ Stop

SpecLoopback == Init /\ [][NextLoopback]_vars

\* switchInputToAudioDevice(dev) would ask for a resampler
InputSwitchCreatesResampler(dev, near) ==
    LET adj == adjustedFormatForAudioDevice(dev, desiredInputFormat, near)
    IN  ~isNull(dev) /\ adj.ok /\ InputNeedsResampler(adj.format, desiredInputFormat)

\* switchOutputToAudioDevice(dev) would ask for a resampler
OutputSwitchCreatesResampler(dev, near) ==
    LET adj == adjustedFormatForAudioDevice(dev, desiredOutputFormat, near)
    IN  /\ ~isNull(dev)
        /\ adj.ok
        /\ desiredOutputFormat # adj.format
        /\ desiredOutputFormat.sampleRate # adj.format.sampleRate

\* handleLocalEchoAndReverb would enter the loopback branch and ask for a
\* loopback resampler
LoopbackCreatesResampler ==
    /\ ~muted
    /\ audioOutput # NULL
    /\ shouldEchoLocally \/ ((reverb \/ streamReverb.has) /\ ~shouldEchoToServer)
    /\ inputFormat.sampleRate # outputFormat.sampleRate
    /\ loopbackResampler = NULL

\* C16: a switch whose resampler creation fails returns false, leaves the
\* resampler of its direction null and neither creates nor starts a device
\* object; a capture callback whose loopback resampler creation fails
\* writes nothing to the loopback sink, and its buffer still reaches the
\* ring buffer and is packetized, one packet per quantum while the audio
\* mixer is active.
C16_FailedResamplerCreation ==
    [][/\ \A dev \in LoopbackInputDevices :
             \A near \in NearestChoices(dev, desiredInputFormat), startOk \in BOOLEAN :
                (/\ InputSwitchCreatesResampler(dev, near)
                 /\ SwitchInputWith(dev, desiredInputFormat, isStereoInput, near, FALSE, startOk))
                  => /\ ~inputSwitch'.supportedFormat
                     /\ inputToNetworkResampler' = NULL
                     /\ audioInput' = NULL
                     /\ inputDevice' = NULL
       /\ \A dev \in LoopbackOutputDevices :
             \A near \in NearestChoices(dev, desiredOutputFormat) :
                (/\ OutputSwitchCreatesResampler(dev, near)
                 /\ SetRenderState(switchOutputToAudioDevice(dev, desiredOutputFormat,
                                                             outputBufferSizeFrames, near, FALSE)))
                  => /\ ~outputSwitch'.supportedFormat
                     /\ networkToOutputResampler' = NULL
                     /\ audioOutput' = NULL
                     /\ loopbackAudioOutput' = NULL
       /\ \A buf \in LoopbackBuffers :
             (LoopbackCreatesResampler /\ HandleAudioInput(buf, TRUE, FALSE))
                  => /\ loopbackWritten' = loopbackWritten
                     /\ loopbackResampler' = NULL
                     /\ Len(frames') = (Len(inputRingBuffer) + Len(buf)) \div inputSamplesRequired
                     /\ Len(inputRingBuffer') =
                           (Len(inputRingBuffer) + Len(buf)) % inputSamplesRequired
                     /\ audioMixer = "active" =>
                           /\ \A i \in 1..Len(frames') : frames'[i].sent
                           /\ Len(datagrams') = Len(frames')]_vars

\* C16 witness: with local echo on, input at the network rate and output at
\* twice that rate, a capture callback has started the loopback sink and
\* failed to create the loopback resampler: nothing was ever written to the
\* sink, and the callback's frame went out in a packet
C16_Witness ==
    /\ shouldEchoLocally
    /\ audioOutput # NULL
    /\ inputFormat.sampleRate = SAMPLE_RATE
    /\ outputFormat.sampleRate = 2 * SAMPLE_RATE
    /\ loopbackOutputDevice # NULL
    /\ loopbackResampler = NULL
    /\ loopbackWritten = NULL
    /\ Len(frames) = 1
    /\ frames[1].sent
    /\ Len(datagrams) = 1

(***************************************************************************)
(* Isolation of the two directions.                                        *)
(***************************************************************************)
\* a step of switchInputToAudioDevice alone, successful or not
IsInputSwitch == inputSwitch' # inputSwitch /\ outputSwitch' = outputSwitch

\* a step of switchOutputToAudioDevice alone, successful or not
IsOutputSwitch == outputSwitch' # outputSwitch /\ inputSwitch' = inputSwitch

\* C17: switchInputToAudioDevice, successful or not, leaves the output
\* device, the output format, the network-to-output resampler and the
\* loopback output as they were; switchOutputToAudioDevice leaves the input
\* device, the input format, the input ring buffer and the input-to-network
\* resampler as they were.
C17_SwitchesKeepToTheirDirection ==
    [][/\ IsInputSwitch =>
             UNCHANGED <<audioOutput, outputFormat, networkToOutputResampler,
                         loopbackAudioOutput, loopbackOutputDevice>>
       /\ IsOutputSwitch =>
             UNCHANGED <<audioInput, inputDevice, inputFormat, inputRingBuffer,
                         inputToNetworkResampler>>]_vars

\* C17 witness: both directions have been switched from the default
\* devices to 48000 Hz devices and run with their resamplers, so the later
\* of the two switches acted on a direction-crossed state; the ring buffer
\* holds captured samples
C17_Witness ==
    /\ inputSwitch.called
    /\ inputSwitch.supportedFormat
    /\ inputFormat.sampleRate = 2 * SAMPLE_RATE
    /\ inputToNetworkResampler # NULL
    /\ Len(inputRingBuffer) > 0
    /\ outputSwitch.called
    /\ outputSwitch.supportedFormat
    /\ outputFormat.sampleRate = 2 * SAMPLE_RATE
    /\ networkToOutputResampler # NULL

(***************************************************************************)
(* Failed negotiation and failed start inside a switch.                    *)
(***************************************************************************)
\* C18: when the format negotiation of a device switch fails, the switch
\* returns false and leaves no device object of its direction, whatever
\* device was active before: no QAudioInput and no capture device for
\* handleAudioInput to be connected to, respectively no QAudioOutput to pull
\* readData or notify, and no loopback output.
C18_FailedNegotiationLeavesNoDevice ==
    /\ (inputSwitch.called /\ inputSwitch.negotiated /\ ~inputSwitch.ok) =>
          /\ ~inputSwitch.supportedFormat
          /\ audioInput = NULL
          /\ inputDevice = NULL
    /\ (outputSwitch.called /\ outputSwitch.negotiated /\ ~outputSwitch.ok) =>
          /\ ~outputSwitch.supportedFormat
          /\ audioOutput = NULL
          /\ loopbackAudioOutput = NULL
          /\ loopbackOutputDevice = NULL

\* C18 witness: after start() had opened the default devices, both
\* directions were switched to 8000 Hz mono devices, for which the
\* negotiation fails
C18_Witness ==
    /\ desiredInputFormat = Format(SAMPLE_RATE, 1)
    /\ inputSwitch.called
    /\ inputSwitch.device.supported = {Format(8000, 1)}
    /\ inputSwitch.negotiated
    /\ ~inputSwitch.ok
    /\ audioInput = NULL
    /\ outputSwitch.called
    /\ outputSwitch.device.supported = {Format(8000, 1)}
    /\ outputSwitch.negotiated
    /\ ~outputSwitch.ok
    /\ audioOutput = NULL

\* switchOutputToAudioDevice(dev), requested by the user, where startOk is
\* whether QAudioOutput::start() brings the device up; the outcome is kept
\* in the log of the switch
SwitchOutputToAudioDeviceStarting(dev, startOk) ==
    /\ \E near \in NearestChoices(dev, desiredOutputFormat), soxrOk \in BOOLEAN :
          LET r == switchOutputToAudioDevice(dev, desiredOutputFormat,
                                             outputBufferSizeFrames, near, soxrOk)
              log == r.outputSwitch
          IN  SetRenderState(
                  [r EXCEPT !.outputSwitch =
                      [device |-> log.device, desired |-> log.desired, called |-> TRUE,
                       negotiated |-> log.negotiated, ok |-> log.ok, format |-> log.format,
                       supportedFormat |-> log.supportedFormat,
                       startAttempted |-> r.audioOutput # NULL,
                       startOk |-> startOk]])
    /\ UNCHANGED <<captureVars, flagVars, packetVars, audioMixer, desiredOutputFormat,
                   loopbackWritten, starveVars, settingVars, physicsVars, streamVars, now, reverbVars>>

NextStart ==
    \/ Start
    \/ Started /\ \E dev \in InputDevices \cup {NullDevice} : SwitchInputToAudioDevice(dev)
    \/ Started /\ \E dev \in OutputDevices \cup {NullDevice}, startOk \in BOOLEAN :
                     SwitchOutputToAudioDeviceStarting(dev, startOk)
    \/ Started /\ \E stereo \in BOOLEAN : SetIsStereoInput(stereo)

SpecStart == Init /\ [][NextStart]_vars

\* the last input switch created the QAudioInput and its start() failed
InputStartFailed == inputSwitch.called /\ audioInput # NULL /\ inputDevice = NULL

\* the last output switch created the QAudioOutput and its start() failed
OutputStartFailed ==
    /\ outputSwitch.called
    /\ "startOk" \in DOMAIN outputSwitch
    /\ outputSwitch.startAttempted
    /\ ~outputSwitch.startOk

\* C19 as stated: when starting the device fails during a switch, in the
\* input and in the output direction alike, the switch returns false and
\* the direction is left inactive: no handler is connected to it and it is
\* not reported as supported.
C19_FailedStartReportsFailure ==
    /\ InputStartFailed => ~inputSwitch.supportedFormat
    /\ OutputStartFailed => (~outputSwitch.supportedFormat /\ audioOutput = NULL)

\* C19 witness: an output switch whose start() failed has returned true and
\* left the QAudioOutput, with outputNotify connected to it, in place
C19_Witness ==
    /\ OutputStartFailed
    /\ outputSwitch.supportedFormat
    /\ audioOutput # NULL
    /\ loopbackAudioOutput # NULL

(***************************************************************************)
(* Reverb provenance.                                                      *)
(***************************************************************************)
\* parseAudioEnvironmentData: the zone's reverb reaches or leaves the
\* received stream
ParseAudioEnvironmentData(hasReverb, reverbTime, wetLevel) ==
    /\ streamReverb' = IF hasReverb
                       THEN [has |-> TRUE, reverbTime |-> reverbTime, wetLevel |-> wetLevel]
                       ELSE [streamReverb EXCEPT !.has = FALSE]
    /\ UNCHANGED <<captureVars, flagVars, packetVars, audioMixer, outputDeviceVars,
                   loopbackVars, starveVars, settingVars, physicsVars, streamVars, now, reverb,
                   reverbOptions, scriptReverbOptions, zoneReverbOptions, gverbLocal, gverb>>

\* the user's reverb switch
SetReverb(on) ==
    /\ on # reverb
    /\ reverb' = on
    /\ UNCHANGED <<captureVars, flagVars, packetVars, audioMixer, outputDeviceVars,
                   loopbackVars, starveVars, settingVars, physicsVars, streamVars, now, streamReverb,
                   reverbOptions, scriptReverbOptions, zoneReverbOptions, gverbLocal, gverb>>

\* faulty variant of SetReverbOptions: the options are saved and never
\* applied to the engines
SetReverbOptions_savesOnly(options) ==
    /\ scriptReverbOptions' = options
    /\ UNCHANGED <<captureVars, flagVars, packetVars, audioMixer, outputDeviceVars,
                   loopbackVars, starveVars, settingVars, physicsVars, streamVars, now, reverb,
                   streamReverb, reverbOptions, zoneReverbOptions, gverbLocal, gverb>>

\* setReverbOptions: the script's options are saved, and applied to both
\* engines while they are the active ones
SetReverbOptions(options) ==
    /\ scriptReverbOptions' = options
    /\ gverbLocal' = IF reverbOptions = "script" THEN NewGverb(options) ELSE gverbLocal
    /\ gverb' = IF reverbOptions = "script" THEN NewGverb(options) ELSE gverb
    /\ UNCHANGED <<captureVars, flagVars, packetVars, audioMixer, outputDeviceVars,
                   loopbackVars, starveVars, settingVars, physicsVars, streamVars, now, reverb,
                   streamReverb, reverbOptions, zoneReverbOptions>>

\* the reverb times and wet levels a zone or a script asks for
ReverbLevels == {1, MaxReverbLevel}

NextReverb ==
    \/ Start
    \/ \E hasReverb \in BOOLEAN, reverbTime \in ReverbLevels, wetLevel \in ReverbLevels :
          ParseAudioEnvironmentData(hasReverb, reverbTime, wetLevel)
    \/ \E on \in BOOLEAN : SetReverb(on)
    \/ \E t \in ReverbLevels :
          SetReverbOptions([DefaultEffectOptions EXCEPT !.reverbTime = t])
    \/ \E frame \in NetworkFrames : AddReceivedAudioToStream(frame)
    \/ ReadData(NETWORK_FRAME_BYTES_STEREO, BYTES_PER_SAMPLE)

SpecReverb == Init /\ [][NextReverb]_vars

\* C20: a call of updateGverbOptions (here from processReceivedSamples,
\* which makes it when client reverb is on or the stream has reverb) leaves
\* the zone's options active exactly when the received stream reports
\* reverb and the script's options otherwise, and whenever that changes
\* which of the two is active both reverb engines are rebuilt from the
\* newly active options.
C20_ProvenanceFollowsStream ==
    [][((\E frame \in NetworkFrames : AddReceivedAudioToStream(frame))
            /\ (reverb \/ streamReverb.has)) =>
          /\ reverbOptions' = (IF streamReverb.has THEN "zone" ELSE "script")
          /\ reverbOptions' # reverbOptions =>
                LET active == IF reverbOptions' = "zone" THEN zoneReverbOptions'
                              ELSE scriptReverbOptions'
                    engine == [sampleRate |-> outputFormat.sampleRate, options |-> active,
                               fed |-> FALSE]
                IN  gverb' = [engine EXCEPT !.fed = lastRender'.samples # <<>>]
                    /\ gverbLocal' = engine]_vars

\* C20 witness: the zone's options had been active with values of the
\* zone's own, the stream has lost its reverb since, and a render pass with
\* client reverb on has brought the script's options back and rebuilt the
\* engines from them
C20_Witness ==
    /\ reverb
    /\ ~streamReverb.has
    /\ lastRender.called
    /\ lastRender.reverb # NULL
    /\ reverbOptions = "script"
    /\ zoneReverbOptions.reverbTime = MaxReverbLevel
    /\ scriptReverbOptions.reverbTime = 1
    /\ gverb.options = scriptReverbOptions
    /\ gverbLocal.options = scriptReverbOptions

(***************************************************************************)
(* Reverb engine instances.                                                *)
(***************************************************************************)
\* a setReverbOptions call
IsSetReverbOptions ==
    \E t \in ReverbLevels : SetReverbOptions([DefaultEffectOptions EXCEPT !.reverbTime = t])

\* C21: both reverb engines exist at all times, and a reconfiguration that
\* does not switch the provenance (setReverbOptions while the script's
\* options are active, or a change of the zone's values while the zone's
\* options are active) keeps the engine instances, audio they have
\* processed included, and changes only their parameters.
C21_ReconfigurationKeepsInstances ==
    [][/\ gverb' # NULL /\ gverbLocal' # NULL
       /\ (IsSetReverbOptions /\ reverbOptions = "script") =>
              gverb'.fed = gverb.fed /\ gverbLocal'.fed = gverbLocal.fed
       /\ ((\E frame \in NetworkFrames : AddReceivedAudioToStream(frame))
              /\ reverbOptions = "zone" /\ reverbOptions' = "zone"
              /\ zoneReverbOptions' # zoneReverbOptions) =>
              gverb'.fed = (gverb.fed \/ lastRender'.samples # <<>>)
              /\ gverbLocal'.fed = gverbLocal.fed]_vars

\* C21 witness: reverb was applied to a rendered frame under the script's
\* options, and a setReverbOptions call since has left the network engine
\* a new instance that has processed no audio
C21_Witness ==
    /\ lastRender.called
    /\ lastRender.reverb # NULL
    /\ lastRender.samples # <<>>
    /\ lastRender.reverb.engine.options.reverbTime = 1
    /\ reverbOptions = "script"
    /\ scriptReverbOptions.reverbTime = MaxReverbLevel
    /\ gverb.options = scriptReverbOptions
    /\ ~gverb.fed

(***************************************************************************)
(* Starve detection across output switches.                                *)
(***************************************************************************)
\* C22: every call of switchOutputToAudioDevice, whether made by start(),
\* requested by the user or made to change the buffer size, resets the
\* starve-detection state: it leaves the accumulated count of unfulfilled
\* reads at zero and the start of the detection window at its initial value
\* or at the time of the call.
C22_EverySwitchResetsStarveDetection ==
    [][outputSwitch' # outputSwitch =>
          /\ outputStarveDetectionCount' = 0
          /\ outputStarveDetectionStartTimeMsec' \in {0, now}]_vars

\* C22 witness: unfulfilled reads had been accumulated in the detection
\* window, the user has switched the output to the null device since, and
\* the accumulated count is still there
C22_Witness ==
    /\ Started
    /\ audioOutput = NULL
    /\ outputStarveDetectionEnabled
    /\ lastNotify.called
    /\ ~lastNotify.crossed
    /\ outputStarveDetectionCount > 0

C24_WindowRestartsFromReading ==
    [][(OutputNotify /\ unfulfilledReads > 0 /\ outputStarveDetectionEnabled) =>
          LET recentUnfulfilled == unfulfilledReads
              count == outputStarveDetectionCount + recentUnfulfilled
          IN  IF now - outputStarveDetectionStartTimeMsec > outputStarveDetectionPeriodMsec
              THEN /\ outputStarveDetectionStartTimeMsec' = now
                   /\ outputStarveDetectionCount' = recentUnfulfilled
                   /\ outputBufferSizeFrames' = outputBufferSizeFrames
              ELSE IF count > outputStarveDetectionThreshold
              THEN outputStarveDetectionStartTimeMsec' = now
              ELSE /\ outputStarveDetectionCount' = count
                   /\ outputStarveDetectionStartTimeMsec' = outputStarveDetectionStartTimeMsec
                   /\ outputBufferSizeFrames' = outputBufferSizeFrames]_vars

\* C24 witness: a tick that read unfulfilled reads after the detection
\* period had run out has restarted the window at the time of the tick, and
\* the counter is at zero
C24_Witness ==
    /\ outputStarveDetectionEnabled
    /\ lastNotify.called
    /\ lastNotify.restarted
    /\ lastNotify.recentUnfulfilled > 0
    /\ lastNotify.before = lastNotify.after
    /\ now > outputStarveDetectionPeriodMsec
    /\ outputStarveDetectionStartTimeMsec = now
    /\ outputStarveDetectionCount = 0

(***************************************************************************)
(* Unfulfilled reads.                                                      *)
(***************************************************************************)
\* C25: every readData call that pops no samples from the received stream
\* and fills the request with silence while the output device holds no
\* unplayed audio adds one to the unfulfilled reads the next outputNotify
\* tick takes as recentUnfulfilled.
C25_SilentReadIsCounted ==
    [][((\E maxSize \in {0, NETWORK_FRAME_BYTES_STEREO} : ReadData(maxSize, 0))
            /\ lastRead'.samplesPopped = 0) =>
          /\ lastRead'.unfulfilled
          /\ unfulfilledReads' = unfulfilledReads + 1]_vars

\* C25 witness: the render device, holding no unplayed audio, has asked for
\* a frame, the stream had nothing to give, the request was filled with
\* silence, and no unfulfilled read has been counted
C25_Witness ==
    /\ lastRead.called
    /\ lastRead.maxSize = NETWORK_FRAME_BYTES_STEREO
    /\ lastRead.samplesPopped = 0
    /\ \A i \in 1..lastRead.maxSize : lastRead.data[i] = ZeroByte
    /\ lastRead.bytesWritten = lastRead.maxSize
    /\ ~lastRead.unfulfilled
    /\ unfulfilledReads = 0
    /\ ~lastNotify.called

(***************************************************************************)
(* The loopback resampler and the formats it was created for.              *)
(***************************************************************************)
\* C26: whenever handleLocalEchoAndReverb writes to the loopback device,
\* the resampler its possibleResampling call was given is one created from
\* the current input sample rate to the current output sample rate, and
\* none when the two rates are equal.
C26_LoopbackResamplerIsCurrent ==
    \A buf \in LoopbackBuffers, soxrOk \in BOOLEAN :
        LET r == handleLocalEchoAndReverb(buf, soxrOk)
        IN  r.wrote =>
               r.loopbackWritten.resampler =
                  IF inputFormat.sampleRate = outputFormat.sampleRate THEN NULL
                  ELSE [from |-> inputFormat.sampleRate, to |-> outputFormat.sampleRate]

\* C26 witness: the loopback branch has written samples converted from
\* mono to stereo without a change of rate (twice as many samples out as
\* in) through a resampler created from twice the network rate to the
\* network rate, left over from the input device used before
C26_Witness ==
    /\ loopbackWritten # NULL
    /\ loopbackWritten.resampler = [from |-> 2 * SAMPLE_RATE, to |-> SAMPLE_RATE]
    /\ Len(loopbackWritten.samples) = 2 * Len(loopbackWritten.input)
    /\ inputFormat = Format(SAMPLE_RATE, 1)
    /\ outputFormat = Format(SAMPLE_RATE, 2)
    /\ loopbackResampler = loopbackWritten.resampler

(***************************************************************************)
(* Reverb on both paths.                                                   *)
(***************************************************************************)
\* the buffer the capture device delivers here: one network frame of one
\* value
ReverbBuffers == { buf \in LoopbackBuffers : Len(buf) = NETWORK_FRAME_SAMPLES_PER_CHANNEL }

\* environment packets, setReverbOptions calls, render and capture passes
NextProvenance ==
    \/ Start
    \/ \E hasReverb \in BOOLEAN, wetLevel \in ReverbLevels :
          ParseAudioEnvironmentData(hasReverb, DefaultEffectOptions.reverbTime, wetLevel)
    \/ SetReverb(TRUE)
    \/ \E t \in ReverbLevels :
          SetReverbOptions([DefaultEffectOptions EXCEPT !.reverbTime = t])
    \/ AddReceivedAudioToStream(ResampleFrame)
    \/ ReadData(NETWORK_FRAME_BYTES_STEREO, BYTES_PER_SAMPLE)
    \/ \E buf \in ReverbBuffers : HandleAudioInput(buf, TRUE, TRUE)

SpecProvenance == Init /\ [][NextProvenance]_vars

\* C27: every time reverb is applied, to a rendered frame or to the
\* loopback samples, the engine's options and the wet level used are those
\* of the options that are authoritative at that moment: the zone's, with
\* the reverb time and wet level the received stream reports, when the
\* stream has reverb, and the script's otherwise.
C27_ReverbUsesAuthoritativeOptions ==
    [][LET authoritative ==
               IF streamReverb.has
               THEN [zoneReverbOptions EXCEPT !.reverbTime = streamReverb.reverbTime,
                                              !.wetLevel = streamReverb.wetLevel]
               ELSE scriptReverbOptions
       IN  /\ (AddReceivedAudioToStream(ResampleFrame) /\ (reverb \/ streamReverb.has)) =>
                 /\ lastRender'.reverb # NULL
                 /\ lastRender'.reverb.engine.options = authoritative
                 /\ lastRender'.reverb.wetLevel = authoritative.wetLevel
           /\ (\E buf \in ReverbBuffers :
                  HandleAudioInput(buf, TRUE, TRUE) /\ handleLocalEchoAndReverb(buf, TRUE).wrote) =>
                 /\ loopbackWritten'.reverb # NULL
                 /\ loopbackWritten'.reverb.engine.options = authoritative
                 /\ loopbackWritten'.reverb.wetLevel = authoritative.wetLevel]_vars

\* C27 witness: the zone's options had been in use with values of the
\* zone's own, the script's options were set to values of their own, the
\* stream has lost its reverb, and both paths have since applied reverb
\* with engines built from the script's options
C27_Witness ==
    /\ reverb
    /\ ~streamReverb.has
    /\ reverbOptions = "script"
    /\ zoneReverbOptions.wetLevel = MaxReverbLevel
    /\ scriptReverbOptions.reverbTime = MaxReverbLevel
    /\ lastRender.called
    /\ lastRender.reverb # NULL
    /\ lastRender.reverb.engine.options = scriptReverbOptions
    /\ lastRender.reverb.wetLevel = scriptReverbOptions.wetLevel
    /\ loopbackWritten # NULL
    /\ loopbackWritten.reverb # NULL
    /\ loopbackWritten.reverb.engine.options = scriptReverbOptions
    /\ gverb.fed /\ gverbLocal.fed

(***************************************************************************)
(* When the loopback branch writes.                                        *)
(***************************************************************************)
\* the user's switches, the zone's reverb, the output going away, and
\* capture callbacks
NextEcho ==
    \/ Start
    \/ ToggleMute
    \/ ToggleServerEcho
    \/ ToggleLocalEcho
    \/ \E on \in BOOLEAN : SetReverb(on)
    \/ \E hasReverb \in BOOLEAN :
          ParseAudioEnvironmentData(hasReverb, DefaultEffectOptions.reverbTime,
                                    DefaultEffectOptions.wetLevel)
    \/ Started /\ SwitchOutputToAudioDevice(NullDevice)
    \/ \E buf \in ReverbBuffers : HandleAudioInput(buf, TRUE, TRUE)

SpecEcho == Init /\ [][NextEcho]_vars

\* C28: handleLocalEchoAndReverb writes to the loopback device only when
\* the client is not muted, the output device exists, local echo is
\* requested or client reverb or the zone's reverb is active, and echo to
\* the server is not requested.
C28_WritesOnlyWithoutServerEcho ==
    [][(\E buf \in ReverbBuffers :
           HandleAudioInput(buf, TRUE, TRUE) /\ handleLocalEchoAndReverb(buf, TRUE).wrote) =>
          /\ ~muted
          /\ audioOutput # NULL
          /\ shouldEchoLocally \/ reverb \/ streamReverb.has
          /\ ~shouldEchoToServer]_vars

\* C28 witness: with local echo and echo to the server both requested and
\* client reverb on, the loopback branch has written the captured samples
\* without reverb
C28_Witness ==
    /\ ~muted
    /\ audioOutput # NULL
    /\ shouldEchoLocally
    /\ shouldEchoToServer
    /\ reverb
    /\ loopbackOutputDevice # NULL
    /\ loopbackWritten # NULL
    /\ loopbackWritten.reverb = NULL
    /\ ~gverbLocal.fed

(***************************************************************************)
(* Input samples per quantum.                                              *)
(***************************************************************************)
\* inputSamplesRequired of handleAudioInput (lines 701-703) for a capture
\* device opened with the given format, through _numInputCallbackBytes
\* (lines 1201-1207) and calculateDeviceToNetworkInputRatio (lines
\* 1209-1215), when the network frame has frameSamples samples per channel
inputSamplesRequiredFor(frameSamples, format) ==
    LET frameBytes == frameSamples * BYTES_PER_SAMPLE
        callbackBytes == RoundHalfUp(frameBytes * format.channelCount * format.sampleRate,
                                     SAMPLE_RATE * CALLBACK_ACCELERATOR_RATIO)
        ratio == RoundHalfUp(callbackBytes * CALLBACK_ACCELERATOR_RATIO, frameBytes)
    IN  frameSamples * ratio

\* the sample rates the negotiation asks a device for
NegotiatedRates == {SAMPLE_RATE, SAMPLE_RATE * 2, HALF_FORTY_FOUR, FORTY_FOUR}

\* C29: for every input format the negotiation returns with one of the
\* rates it asks for, the number of samples handleAudioInput takes from the
\* ring buffer per quantum, muted or not, is the number of samples of that
\* format that span one network frame, frame samples * channels * inputRate
\* / SAMPLE_RATE, to within less than one sample where that is no integer.
C29_QuantumSpansOneNetworkFrame ==
    (inputSwitch.called /\ inputSwitch.ok
        /\ inputSwitch.format.sampleRate \in NegotiatedRates) =>
        \A frameSamples \in NETWORK_FRAME_SAMPLES_PER_CHANNEL..MaxQuantumSamples :
            LET format == inputSwitch.format
                spanned == frameSamples * format.channelCount * format.sampleRate
            IN  Abs(inputSamplesRequiredFor(frameSamples, format) * SAMPLE_RATE - spanned)
                    < SAMPLE_RATE

\* C29 witness: the negotiation has returned mono 44100 Hz through the
\* fallback, and a quantum of that format takes twice the network frame's
\* samples from the ring buffer, more than one sample above the samples
\* that span the frame
C29_Witness ==
    /\ inputSwitch.called
    /\ inputSwitch.ok
    /\ inputSwitch.desired = Format(SAMPLE_RATE, 1)
    /\ inputSwitch.format = Format(FORTY_FOUR, 1)
    /\ inputSamplesRequiredFor(MaxQuantumSamples, inputSwitch.format) = 2 * MaxQuantumSamples
    /\ (2 * MaxQuantumSamples - 1) * SAMPLE_RATE > MaxQuantumSamples * FORTY_FOUR

(***************************************************************************)
(* The order of the fallback rates.                                        *)
(***************************************************************************)
\* C30: when the device supports neither the desired format nor, for a
\* mono request, its two-channel variant, and reports at least one of the
\* fallback rates as supported, the fallback rate is the first the device
\* supports of twice the network rate, 22050 Hz and 44100 Hz, in that
\* order; the negotiation succeeds whenever that rate is not the desired
\* one, and the format it then returns is the device's nearest format to
\* the desired format at that rate.
C30_FallbackRateInOrder ==
    LET order == <<SAMPLE_RATE * 2, HALF_FORTY_FOUR, FORTY_FOUR>>
        matches == { i \in DOMAIN order :
                        order[i] \in supportedSampleRates(inputSwitch.device) }
    IN  (UnsupportedRequest /\ ~StereoRetryApplies /\ matches # {}) =>
            LET first == CHOOSE i \in matches : \A j \in matches : i <= j
                request == SetSampleRate(inputSwitch.desired, order[first])
            IN  /\ order[first] # inputSwitch.desired.sampleRate => inputSwitch.ok
                /\ inputSwitch.ok =>
                      inputSwitch.format \in nearestFormat(inputSwitch.device, request)

\* C30 witness: a device supporting mono 22050 Hz and mono 44100 Hz was
\* asked for mono at the network rate, and the negotiation has returned
\* mono 22050 Hz
C30_Witness ==
    /\ UnsupportedRequest
    /\ ~StereoRetryApplies
    /\ inputSwitch.device.supported = {Format(HALF_FORTY_FOUR, 1), Format(FORTY_FOUR, 1)}
    /\ inputSwitch.desired = Format(SAMPLE_RATE, 1)
    /\ inputSwitch.ok
    /\ inputSwitch.format = Format(HALF_FORTY_FOUR, 1)

\* ---------------------------------------------------------------------
\* C31  Wire layout.  Behind its header a silent-frame packet holds the
\* 16-bit sequence number, the 16-bit sample count of one network frame,
\* the three floats of the position and the four floats of the
\* orientation, and no samples.  A voice packet holds the 16-bit sequence
\* number, the one-byte stereo flag (1 exactly when stereo input is
\* selected), position, orientation and one network frame of samples, mono
\* or stereo as the flag says, which start where networkAudioSamples
\* points.
FieldNames(p) == [i \in 1..Len(p.fields) |-> p.fields[i].field]

FieldBytes(p) == [i \in 1..Len(p.fields) |-> p.fields[i].bytes]

C31_WireLayout ==
    [][\A buf \in CaptureBuffers, gateOpen \in BOOLEAN :
          HandleAudioInput(buf, gateOpen, TRUE) =>
              \A k \in 1..Len(datagrams') :
                  LET p == datagrams'[k]
                      stereo == IF isStereoInput THEN 1 ELSE 0
                  IN  /\ p.fields[1].value = p.sequence
                      /\ p.type = "SilentAudioFrame" =>
                            /\ FieldNames(p) = <<"sequence", "numSilentSamples",
                                                 "position", "orientation">>
                            /\ FieldBytes(p) = <<2, 2, 12, 16>>
                            /\ p.fields[2].value = NETWORK_FRAME_SAMPLES_PER_CHANNEL * (1 + stereo)
                      /\ p.type # "SilentAudioFrame" =>
                            /\ p.type \in {"MicrophoneAudioWithEcho", "MicrophoneAudioNoEcho"}
                            /\ FieldNames(p) = <<"sequence", "isStereo", "position",
                                                 "orientation", "samples">>
                            /\ FieldBytes(p) =
                                  <<2, 1, 12, 16,
                                    NETWORK_FRAME_SAMPLES_PER_CHANNEL * (1 + stereo)
                                        * BYTES_PER_SAMPLE>>
                            /\ p.fields[2].value = stereo
                            /\ p.fields[1].bytes + p.fields[2].bytes + p.fields[3].bytes
                                  + p.fields[4].bytes = leadingBytes]_vars

\* one callback has just sent a silent frame and then a voice packet
C31_Witness ==
    /\ Len(datagrams) = 2
    /\ datagrams[1].type = "SilentAudioFrame" /\ Len(datagrams[1].fields) = 4
    /\ datagrams[1].fields[2].value = NETWORK_FRAME_SAMPLES_PER_CHANNEL
    /\ datagrams[2].type # "SilentAudioFrame" /\ Len(datagrams[2].fields) = 5
    /\ datagrams[2].fields[5].bytes = NETWORK_FRAME_BYTES_PER_CHANNEL

\* ---------------------------------------------------------------------
\* Starvation growth with the user on a render device of their choice:
\* switches between the default device and one at twice the network rate,
\* reads of an empty stream, notify ticks.
NextGrowth ==
    \/ Start
    \/ Started /\ \E dev \in LoopbackOutputDevices : SwitchOutputToAudioDevice(dev)
    \/ \E maxSize \in {0, NETWORK_FRAME_BYTES_STEREO} : ReadData(maxSize, 0)
    \/ OutputNotify
    \/ Tick

SpecGrowth == Init /\ [][NextGrowth]_vars

\* C32  When starvation detection grows the output buffer while an output
\* device is active, the output sink is torn down and recreated at the new
\* buffer size on the output device that was in use before the growth.
C32_GrowthKeepsTheDevice ==
    [][OutputNotify /\ lastNotify'.crossed /\ lastNotify'.switched =>
          /\ outputBufferSizeFrames' = outputBufferSizeFrames + 1
          /\ audioOutput' # NULL
          /\ audioOutput'.bufferSize =
                outputBufferSizeFrames' * outputFrameSize' * BYTES_PER_SAMPLE
          /\ audioOutput'.device = audioOutput.device
          /\ outputAudioDeviceName' = outputAudioDeviceName]_vars

\* the render device was one the user chose, not the default, and a notify
\* that crossed the threshold has grown the buffer and left output on the
\* default device
C32_Witness ==
    /\ lastNotify.called /\ lastNotify.crossed /\ lastNotify.switched
    /\ lastNotify.device # defaultOutputDevice.name
    /\ audioOutput # NULL
    /\ audioOutput.device = defaultOutputDevice.name
    /\ outputBufferSizeFrames = MAX_AUDIO_OUTPUT_BUFFER_SIZE_FRAMES \div 2 + 1

\* ---------------------------------------------------------------------
\* C33  The drain loop of handleAudioInput terminates for every input
\* format the negotiation can produce for the client's request: the number
\* of samples a quantum takes from the ring buffer, inputSamplesRequired,
\* is strictly positive, so each iteration shortens the ring buffer and the
\* loop ends with fewer than inputSamplesRequired samples in it.
C33_QuantumIsPositive ==
    (inputSwitch.called /\ inputSwitch.ok
        /\ inputSwitch.desired = Format(SAMPLE_RATE, 1)) =>
        \A frameSamples \in NETWORK_FRAME_SAMPLES_PER_CHANNEL..MaxQuantumSamples :
            inputSamplesRequiredFor(frameSamples, inputSwitch.format) > 0

\* the device supports 48000 Hz in stereo only and mono at 8000 Hz; asked
\* for mono 24000 Hz the negotiation has returned mono 8000 Hz, the format
\* nearest to mono 48000 Hz, and a quantum of that format takes no sample
\* at all from the ring buffer
C33_Witness ==
    /\ inputSwitch.called
    /\ inputSwitch.ok
    /\ inputSwitch.desired = Format(SAMPLE_RATE, 1)
    /\ inputSwitch.device.supported = {Format(SAMPLE_RATE * 2, 2), Format(8000, 1)}
    /\ inputSwitch.format = Format(8000, 1)
    /\ inputSamplesRequiredFor(MaxQuantumSamples, inputSwitch.format) = 0

\* ---------------------------------------------------------------------
\* C34  The output device object is never stopped and destroyed while one
\* of its own notify callbacks is executing: no outputNotify reaches,
\* through setOutputBufferSize, a switchOutputToAudioDevice that finds the
\* device that delivers the notification in _audioOutput and deletes it.
\* The device that delivers a notification is the one in _audioOutput, the
\* only one whose notify signal is connected and not yet destroyed.
C34_NotifyKeepsItsDevice ==
    [][OutputNotify => ~(audioOutput # NULL /\ lastNotify'.switched)]_vars

\* a notification delivered by the device on out-native has crossed the
\* threshold and grown the buffer, and the switch in that call has stopped
\* and deleted the device
C34_Witness ==
    /\ lastNotify.called /\ lastNotify.crossed /\ lastNotify.switched
    /\ lastNotify.device = defaultOutputDevice.name
    /\ lastNotify.after = lastNotify.before + 1
    /\ outputSwitch.called
    /\ audioOutput # NULL
    /\ audioOutput.bufferSize = lastNotify.after * outputFrameSize * BYTES_PER_SAMPLE

\* ---------------------------------------------------------------------
\* C35  Whenever reverb is applied, the engine it is applied with was built
\* with the sample rate of the current output format: after a switch of the
\* output device that changes the output sample rate, the first switch
\* after construction included, the engines are rebuilt before their next
\* use.
C35_EngineRateIsOutputRate ==
    [][(AddReceivedAudioToStream(ResampleFrame) /\ lastRender'.reverb # NULL) =>
          /\ lastRender'.reverb.engine.sampleRate = outputFormat.sampleRate
          /\ gverb'.sampleRate = outputFormat.sampleRate
          /\ gverbLocal'.sampleRate = outputFormat.sampleRate]_vars

\* the output device runs at the network rate, a received frame has been
\* given reverb, and the engine that gave it is still the one built by the
\* constructor, before any output format was known
C35_Witness ==
    /\ lastRender.called
    /\ lastRender.reverb # NULL
    /\ lastRender.samples # <<>>
    /\ gverb.fed
    /\ outputFormat.sampleRate = SAMPLE_RATE
    /\ lastRender.reverb.engine.sampleRate = NullFormat.sampleRate
    /\ gverb.sampleRate # outputFormat.sampleRate

\* ---------------------------------------------------------------------
\* C36  The clip timer leaves its negative sentinel only when a clipped
\* sample is detected in a processed frame: a capture callback that finds
\* the timer at the sentinel and leaves it elsewhere has processed an
\* unmuted frame that clips.
C36_SentinelLeftOnlyByClip ==
    [][\A buf \in CaptureBuffers, gateOpen \in BOOLEAN :
          (HandleAudioInput(buf, gateOpen, TRUE)
              /\ timeSinceLastClip < 0 /\ timeSinceLastClip' >= 0) =>
              \E k \in 1..Len(frames') :
                  ~frames'[k].muted /\ Clips(frames'[k].converted)]_vars

\* the only quantum the client has ever sent was a muted one, and the clip
\* timer stands at zero
C36_Witness ==
    /\ muted
    /\ Len(frames) = 1
    /\ frames[1].muted
    /\ totalPackets = 1
    /\ timeSinceLastClip = 0

(***************************************************************************)
(* Channel conversion: the indices it touches.                             *)
(***************************************************************************)
MaxSourceSamples == 6

\* the loops of sampleChannelConversion (lines 353-373) as the zero-based
\* indices they read in sourceSamples and write in destinationSamples
sampleChannelConversionIndices(numSourceSamples, src, dst) ==
    IF src.channelCount = 2 /\ dst.channelCount = 1
    THEN LET steps == { i \in 0..(numSourceSamples - 1) : i % 2 = 0 }
         IN  [converted |-> TRUE,
              reads |-> UNION { {i, i + 1} : i \in steps },
              writes |-> { i \div 2 : i \in steps }]
    ELSE IF src.channelCount = 1 /\ dst.channelCount = 2
    THEN LET steps == 0..(numSourceSamples - 1)
         IN  [converted |-> TRUE,
              reads |-> steps,
              writes |-> UNION { {i * 2, i * 2 + 1} : i \in steps }]
    ELSE [converted |-> FALSE, reads |-> {}, writes |-> {}]

\* possibleResampling (lines 375-421) up to the call of soxr_process: the
\* indices read in sourceSamples, the indices written, whether they are
\* written to the scratch buffer channelConversionSamples or to
\* destinationSamples, and how many samples that buffer holds
possibleResamplingIndices(hasResampler, numSourceSamples, numDestinationSamples, src, dst) ==
    LET c == sampleChannelConversionIndices(numSourceSamples, src, dst)
    IN  IF numSourceSamples > 0 /\ ~hasResampler
        THEN [converts |-> c.converted,
              reads |-> IF c.converted THEN c.reads ELSE 0..(numSourceSamples - 1),
              writes |-> IF c.converted THEN c.writes ELSE 0..(numSourceSamples - 1),
              scratch |-> FALSE,
              size |-> numDestinationSamples]
        ELSE IF numSourceSamples > 0 /\ src.channelCount # dst.channelCount
        THEN [converts |-> TRUE, reads |-> c.reads, writes |-> c.writes, scratch |-> TRUE,
              size |-> TruncDiv(numSourceSamples * dst.channelCount, src.channelCount)]
        ELSE [converts |-> FALSE, reads |-> {}, writes |-> {}, scratch |-> FALSE,
              size |-> numDestinationSamples]

\* conversions of 1 to MaxSourceSamples samples between mono and stereo at
\* one rate, with and without a resampler; the caller sizes the destination
\* with numDestinationSamplesRequired (handleLocalEchoAndReverb) or by
\* integer division (processReceivedSamples)
InitIndices ==
    \E n \in 1..MaxSourceSamples, src \in ConversionFormats, dst \in ConversionFormats,
       hasResampler \in BOOLEAN, rounds \in BOOLEAN :
        ConstructedWith(MAX_AUDIO_OUTPUT_BUFFER_SIZE_FRAMES \div 2, TRUE, [called |-> FALSE],
                        [called |-> FALSE, numSourceSamples |-> n, src |-> src, dst |-> dst,
                         hasResampler |-> hasResampler,
                         numDestinationSamples |->
                             IF rounds THEN numDestinationSamplesRequired(src, dst, n)
                             ELSE (n * dst.channelCount) \div src.channelCount])

ConvertIndices ==
    /\ ~lastRender.called
    /\ lastRender' = [called |-> TRUE,
                      numSourceSamples |-> lastRender.numSourceSamples,
                      numDestinationSamples |-> lastRender.numDestinationSamples,
                      src |-> lastRender.src, dst |-> lastRender.dst,
                      hasResampler |-> lastRender.hasResampler,
                      touched |-> possibleResamplingIndices(lastRender.hasResampler,
                                      lastRender.numSourceSamples,
                                      lastRender.numDestinationSamples,
                                      lastRender.src, lastRender.dst)]
    /\ UNCHANGED <<captureVars, flagVars, packetVars, audioMixer, outputDeviceVars,
                   loopbackVars, starveVars, settingVars, physicsVars, lastRead, now, reverbVars>>

NextIndices == ConvertIndices

SpecIndices == InitIndices /\ [][NextIndices]_vars

\* C37  Channel conversion stays within its buffers for every source count
\* of at least one sample, odd counts included: it reads only source
\* indices below numSourceSamples, and the samples it writes fit the
\* scratch buffer of (int)(numSourceSamples * dstChannels / srcChannels)
\* samples on the resampling path and the destination sample count on the
\* path without a resampler.
C37_ConversionStaysInBounds ==
    (lastRender.called /\ lastRender.touched.converts) =>
        LET t == lastRender.touched
        IN  /\ \A i \in t.reads : i < lastRender.numSourceSamples
            /\ \A i \in t.writes : i < t.size
            /\ Cardinality(t.writes) <= t.size

\* three stereo samples have gone through the resampling path to mono: the
\* loop has read the source at index 3 and written two samples to a scratch
\* buffer of one
C37_Witness ==
    /\ lastRender.called
    /\ lastRender.numSourceSamples = 3
    /\ lastRender.src.channelCount = 2 /\ lastRender.dst.channelCount = 1
    /\ lastRender.hasResampler
    /\ lastRender.touched.scratch
    /\ lastRender.touched.size = 1
    /\ 3 \in lastRender.touched.reads
    /\ lastRender.touched.writes = {0, 1}

(***************************************************************************)
(* PhysicsSimulation: the specifications.                                  *)
(***************************************************************************)
\* the ragdoll calls of the simulations on the ragdolls, NULL included
NextRagdolls ==
    \/ \E sim \in Simulations, doll \in Ragdolls \cup {NULL} : setRagdoll(sim, doll)
    \/ \E sim \in Simulations, doll \in Ragdolls \cup {NULL} : addRagdoll(sim, doll)
    \/ \E sim \in Simulations, doll \in Ragdolls \cup {NULL} : removeRagdoll(sim, doll)
    \/ \E sim \in Simulations : clear(sim)

SpecRagdolls == Init /\ [][NextRagdolls]_vars

\* every call of one simulation, on the entities and the ragdolls
NextPhysics ==
    \E sim \in { [simulation |-> 1] } :
        \/ \E entity \in Entities \cup {NULL} : setEntity(sim, entity)
        \/ \E entity \in Entities \cup {NULL} : addEntity(sim, entity)
        \/ \E entity \in Entities \cup {NULL} : removeEntity(sim, entity)
        \/ \E doll \in Ragdolls \cup {NULL} : setRagdoll(sim, doll)
        \/ \E doll \in Ragdolls \cup {NULL} : addRagdoll(sim, doll)
        \/ \E doll \in Ragdolls \cup {NULL} : removeRagdoll(sim, doll)
        \/ clear(sim)

SpecPhysics == Init /\ [][NextPhysics]_vars

\* ---------------------------------------------------------------------
\* C38  Membership: after any sequence of addEntity, removeEntity,
\* setEntity and clear calls every entity in the list of other entities has
\* its back-pointer on this simulation and is in the list once, and every
\* entity whose back-pointer is this simulation is the main entity or in
\* the list; removeEntity of a listed entity removes that entity from the
\* list and keeps all others.
Membership(sim) ==
    /\ \A e \in Listed(otherEntities[sim]) :
          entitySimulation[e] = sim /\ Occurrences(otherEntities[sim], e) = 1
    /\ \A e \in Entities :
          entitySimulation[e] = sim =>
              e = mainEntity[sim] \/ e \in Listed(otherEntities[sim])

C38_MembershipInvariant ==
    [][\A sim \in Simulations :
          /\ Membership(sim)'
          /\ \A entity \in Entities :
                (removeEntity(sim, entity) /\ entity \in Listed(otherEntities[sim])) =>
                    \A e \in Entities :
                        Occurrences(otherEntities'[sim], e) =
                            IF e = entity THEN 0 ELSE Occurrences(otherEntities[sim], e)]_vars

\* with no assert having failed, an entity is in the list of the first
\* simulation with no back-pointer: it was the main entity when clear() was
\* called, was added to the list, and was then released as main entity
C38_Witness ==
    LET sim == [simulation |-> 1]
    IN  /\ build = "unknown"
        /\ mainEntity[sim] = NULL
        /\ otherEntities[sim] = << [entity |-> 1] >>
        /\ entitySimulation[[entity |-> 1]] = NULL

\* ---------------------------------------------------------------------
\* C39  After clear() no entity and no ragdoll that belonged to the
\* simulation, as main or as other, still has a back-pointer to it, so that
\* each of them can afterwards be added to this or to another simulation.
C39_ClearReleasesEverything ==
    [][\A sim \in Simulations :
          clear(sim) =>
              /\ \A e \in Entities : entitySimulation'[e] # sim
              /\ \A r \in Ragdolls : ragdollSimulation'[r] # sim]_vars

\* with no assert having failed, the first simulation holds no ragdoll and
\* both ragdolls still point to it: one was its main ragdoll, the other in
\* its list, when clear() was called
C39_Witness ==
    LET sim == [simulation |-> 1]
    IN  /\ build = "unknown"
        /\ mainRagdoll[sim] = NULL
        /\ otherRagdolls[sim] = <<>>
        /\ \A r \in Ragdolls : ragdollSimulation[r] = sim

\* ---------------------------------------------------------------------
\* C40  No assert of setRagdoll, setEntity, addEntity or addRagdoll can
\* fail: in any sequence of these calls with the remove calls and clear,
\* an object that belongs to a simulation is rejected with a false return
\* or left untouched and never reaches an assert on its back-pointer.
C40_NoAssertFails == build = "unknown"

\* the program has aborted in setEntity: the entity handed over was in the
\* simulation's own list, and the assert on its back-pointer failed once
\* it had been made the main entity
C40_Witness ==
    LET sim == [simulation |-> 1]
    IN  /\ build = "aborted"
        /\ mainEntity[sim] # NULL
        /\ mainEntity[sim] \in Listed(otherEntities[sim])
        /\ entitySimulation[mainEntity[sim]] = sim
        /\ \A r \in Ragdolls : ragdollSimulation[r] = NULL

====
